---- MODULE Spec2Model ----
(***************************************************************************)
(* Lunaria: an XML tree is compiled to Luau text by per-tag handlers held  *)
(* in a Compiler's registry (compiler.go, helpers.go, builtins.go).        *)
(*                                                                         *)
(* Representation of Go strings.  A string is a sequence of pieces.  A     *)
(* piece is a one-character TLA+ string when it comes from the input       *)
(* (attribute values, element content), and may be a whole word when it    *)
(* comes from a format literal of the source ("if", "then", "end").  The   *)
(* white-space characters " ", "\n", "\t", "\r" are always pieces of their *)
(* own, so that trimming, line splitting and counting leading spaces work  *)
(* on the sequence exactly as they work on the bytes.  "" is <<>>.         *)
(*                                                                         *)
(* Tag and attribute names are TLA+ strings; an error is a record holding  *)
(* the format literal (msg) and the %s argument (arg).                     *)
(***************************************************************************)
EXTENDS Integers, Sequences, FiniteSets, TLC

VARIABLES
    comp,   \* instance id -> [handlers, indent]: the Compiler values that exist
    last,   \* the most recent compile call: instance, tree, state before, result
    memo,   \* an earlier compile call kept for comparison with a later one
    run,    \* goroutine -> the compile call it is in: the frames of its walk
    app     \* a helper function applied to an argument, and what it returned

vars == <<comp, last, memo, run, app>>

-----------------------------------------------------------------------------
(* Characters *)

Lower == {"a","b","c","d","e","f","g","h","i","j","k","l","m",
          "n","o","p","q","r","s","t","u","v","w","x","y","z"}
Upper == {"A","B","C","D","E","F","G","H","I","J","K","L","M",
          "N","O","P","Q","R","S","T","U","V","W","X","Y","Z"}
Digit == {"0","1","2","3","4","5","6","7","8","9"}
Space == {" ", "\n", "\t", "\r"}

\* strings.Repeat
RECURSIVE Repeat(_, _)
Repeat(s, n) == IF n <= 0 THEN <<>> ELSE s \o Repeat(s, n - 1)

\* strings.TrimSpace: leading and trailing white space removed
RECURSIVE TrimLeft(_)
TrimLeft(s) == IF s # <<>> /\ Head(s) \in Space THEN TrimLeft(Tail(s)) ELSE s

RECURSIVE TrimRight(_)
TrimRight(s) ==
    IF s # <<>> /\ s[Len(s)] \in Space THEN TrimRight(SubSeq(s, 1, Len(s) - 1)) ELSE s

TrimSpace(s) == TrimRight(TrimLeft(s))

\* strings.Join
RECURSIVE Join(_, _)
Join(strs, sep) ==
    IF strs = <<>> THEN <<>>
    ELSE IF Len(strs) = 1 THEN strs[1]
    ELSE strs[1] \o sep \o Join(Tail(strs), sep)

\* strings.Split(text, "\n"): always at least one element
RECURSIVE SplitLines(_)
SplitLines(s) ==
    IF \A i \in 1..Len(s) : s[i] # "\n" THEN <<s>>
    ELSE LET k == CHOOSE i \in 1..Len(s) : s[i] = "\n" /\ \A j \in 1..(i - 1) : s[j] # "\n"
         IN  <<SubSeq(s, 1, k - 1)>> \o SplitLines(SubSeq(s, k + 1, Len(s)))

-----------------------------------------------------------------------------
(* Errors: fmt.Errorf(msg) and fmt.Errorf(msg + "%s", arg); nil *)

NoErr == [nil |-> TRUE, msg |-> "", arg |-> <<>>]
Errorf(m) == [nil |-> FALSE, msg |-> m, arg |-> <<>>]
ErrorfS(m, a) == [nil |-> FALSE, msg |-> m, arg |-> a]

-----------------------------------------------------------------------------
(* helpers.go *)

Node(tag, attrs, content, kids) ==
    [tag |-> tag, Attrs |-> attrs, Content |-> content, Nodes |-> kids]

Attr(name, value) == [Name |-> name, Value |-> value]

HasAttr(node, name) == \E i \in 1..Len(node.Attrs) : node.Attrs[i].Name = name

\* first match wins; "" when absent
GetAttr(node, name) ==
    IF HasAttr(node, name)
    THEN LET k == CHOOSE i \in 1..Len(node.Attrs) :
                    /\ node.Attrs[i].Name = name
                    /\ \A j \in 1..(i - 1) : node.Attrs[j].Name # name
         IN  node.Attrs[k].Value
    ELSE <<>>

\* a default that stands in for an absent attribute only
GetAttrWithDefaultKeepsEmpty(node, name, defaultValue) ==
    IF HasAttr(node, name) THEN GetAttr(node, name) ELSE defaultValue

GetAttrWithDefault(node, name, defaultValue) ==
    IF GetAttr(node, name) # <<>> THEN GetAttr(node, name) ELSE defaultValue

GetBoolAttr(node, name) ==
    GetAttr(node, name) \in {<<"t","r","u","e">>, <<"1">>, <<"y","e","s">>}

keywords ==
    { <<"a","n","d">>, <<"b","r","e","a","k">>, <<"d","o">>, <<"e","l","s","e">>,
      <<"e","l","s","e","i","f">>, <<"e","n","d">>, <<"f","a","l","s","e">>,
      <<"f","o","r">>, <<"f","u","n","c","t","i","o","n">>, <<"i","f">>, <<"i","n">>,
      <<"l","o","c","a","l">>, <<"n","i","l">>, <<"n","o","t">>, <<"o","r">>,
      <<"r","e","p","e","a","t">>, <<"r","e","t","u","r","n">>, <<"t","h","e","n">>,
      <<"t","r","u","e">>, <<"u","n","t","i","l">>, <<"w","h","i","l","e">> }

IsValidIdentifier(s) ==
    /\ s # <<>>
    /\ s[1] \in Lower \cup Upper \cup {"_"}
    /\ \A i \in 2..Len(s) : s[i] \in Lower \cup Upper \cup Digit \cup {"_"}
    /\ s \notin keywords

\* the strings of strs trimmed, the empty ones dropped
RECURSIVE FilterTrimmed(_)
FilterTrimmed(strs) ==
    IF strs = <<>> THEN <<>>
    ELSE (IF TrimSpace(Head(strs)) # <<>> THEN <<TrimSpace(Head(strs))>> ELSE <<>>)
         \o FilterTrimmed(Tail(strs))

JoinWithCommas(strs) == Join(FilterTrimmed(strs), <<",", " ">>)

\* the index of the first "}" of s at or after i, or 0
RECURSIVE FirstClose(_, _)
FirstClose(s, i) ==
    IF i > Len(s) THEN 0 ELSE IF s[i] = "}" THEN i ELSE FirstClose(s, i + 1)

\* the end of the leftmost match of \{\{([^}]+)\}\} that starts at i, or 0
MatchEnd(s, i) ==
    IF i + 1 <= Len(s) /\ s[i] = "{" /\ s[i + 1] = "{"
    THEN LET j == FirstClose(s, i + 2)
         IN  IF j > i + 2 /\ j + 1 <= Len(s) /\ s[j + 1] = "}" THEN j + 1 ELSE 0
    ELSE 0

\* an expansion that keeps the spaces around the expression
RECURSIVE InterpolateFrom(_, _)
InterpolateKeepsSpaces(s, i) ==
    IF i > Len(s) THEN <<>>
    ELSE LET e == MatchEnd(s, i)
         IN  IF e = 0 THEN <<s[i]>> \o InterpolateFrom(s, i + 1)
             ELSE <<"\"", " ", "..", " ", "tostring", "(">>
                  \o SubSeq(s, i + 2, e - 2)
                  \o <<")", " ", "..", " ", "\"">>
                  \o InterpolateFrom(s, e + 1)

\* regexp ReplaceAllStringFunc: matches taken leftmost, one after the other
InterpolateFrom(s, i) ==
    IF i > Len(s) THEN <<>>
    ELSE LET e == MatchEnd(s, i)
         IN  IF e = 0 THEN <<s[i]>> \o InterpolateFrom(s, i + 1)
             ELSE <<"\"", " ", "..", " ", "tostring", "(">>
                  \o TrimSpace(SubSeq(s, i + 2, e - 2))
                  \o <<")", " ", "..", " ", "\"">>
                  \o InterpolateFrom(s, e + 1)

Interpolate(text) == InterpolateFrom(text, 1)

\* strings.Contains(content, "{{")
ContainsOpen(s) == \E i \in 1..(Len(s) - 1) : s[i] = "{" /\ s[i + 1] = "{"

\* strings.ReplaceAll for a one-character old
RECURSIVE ReplaceAll(_, _, _)
ReplaceAll(s, old, new) ==
    IF s = <<>> THEN <<>>
    ELSE (IF Head(s) = old THEN new ELSE <<Head(s)>>) \o ReplaceAll(Tail(s), old, new)

EscapeString(s) ==
    LET s1 == ReplaceAll(s, "\\", <<"\\", "\\">>)
        s2 == ReplaceAll(s1, "\"", <<"\\", "\"">>)
        s3 == ReplaceAll(s2, "\n", <<"\\", "n">>)
        s4 == ReplaceAll(s3, "\t", <<"\\", "t">>)
    IN  ReplaceAll(s4, "\r", <<"\\", "r">>)

\* result[i] is indent + line for a line with a non-space character, "" otherwise
RECURSIVE IndentEach(_, _)
IndentEach(lines, indent) ==
    IF lines = <<>> THEN <<>>
    ELSE <<IF TrimSpace(Head(lines)) # <<>> THEN indent \o Head(lines) ELSE <<>>>>
         \o IndentEach(Tail(lines), indent)

IndentLines(text, indent) ==
    IF text = <<>> THEN <<>> ELSE Join(IndentEach(SplitLines(text), indent), <<"\n">>)

RECURSIVE CommentEach(_)
CommentEach(lines) ==
    IF lines = <<>> THEN <<>>
    ELSE <<IF TrimSpace(Head(lines)) # <<>>
           THEN <<"--", " ">> \o TrimSpace(Head(lines))
           ELSE <<"--">>>>
         \o CommentEach(Tail(lines))

FormatComment(text) ==
    IF text = <<>> THEN <<>> ELSE Join(CommentEach(SplitLines(TrimSpace(text))), <<"\n">>)

IsStringLiteral(str) ==
    LET s == TrimSpace(str)
        n == Len(s)
    IN  /\ n >= 2
        /\ \/ s[1] = "\"" /\ s[n] = "\""
           \/ s[1] = "'" /\ s[n] = "'"
           \/ s[1] = "[" /\ s[2] = "[" /\ s[n - 1] = "]" /\ s[n] = "]"

\* a run of one or more decimal digits
AllDigits(s) == s # <<>> /\ \A i \in 1..Len(s) : s[i] \in Digit

Unsigned(s) == IF s # <<>> /\ Head(s) \in {"+", "-"} THEN Tail(s) ELSE s

\* strconv.Atoi succeeds: an optional sign and decimal digits
AtoiOk(s) == AllDigits(Unsigned(s))

\* the mantissa digits[.digits] or .digits of a decimal floating-point number
MantissaOk(m) ==
    \/ AllDigits(m)
    \/ \E k \in 1..Len(m) :
          /\ m[k] = "."
          /\ LET a == SubSeq(m, 1, k - 1)
                 b == SubSeq(m, k + 1, Len(m))
             IN  /\ a = <<>> \/ AllDigits(a)
                 /\ b = <<>> \/ AllDigits(b)
                 /\ a # <<>> \/ b # <<>>

\* strconv.ParseFloat succeeds on the decimal forms: sign, mantissa, exponent
ParseFloatOk(s) ==
    LET u == Unsigned(s)
    IN  \/ MantissaOk(u)
        \/ \E k \in 1..Len(u) :
              /\ u[k] \in {"e", "E"}
              /\ MantissaOk(SubSeq(u, 1, k - 1))
              /\ AllDigits(Unsigned(SubSeq(u, k + 1, Len(u))))

IsNumberLiteral(str) ==
    LET s == TrimSpace(str)
    IN  s # <<>> /\ (AtoiOk(s) \/ ParseFloatOk(s))

\* strings.Contains(s, c) for a one-character c
ContainsChar(s, c) == \E i \in 1..Len(s) : s[i] = c

WrapInQuotes(s) ==
    IF IsStringLiteral(s) \/ IsNumberLiteral(s) THEN s
    ELSE IF IsValidIdentifier(s) \/ ContainsChar(s, "(") \/ ContainsChar(s, ".") THEN s
    ELSE <<"\"">> \o EscapeString(s) \o <<"\"">>

-----------------------------------------------------------------------------
(* compiler.go: handlers, registry, compileNode *)

\* the literal of getIndent
IndentUnit == <<" ", " ", " ", " ">>

\* what stands for the panic of strings.Repeat with a negative count
PanicMark == "panic: strings: negative Repeat count"

getIndent(indent) == IF indent < 0 THEN <<PanicMark>> ELSE Repeat(IndentUnit, indent)

\* getIndent panicked while text was written
Panicked(text) == \E i \in 1..Len(text) : text[i] = PanicMark

\* A registry entry.  A built-in is the closure registerBuiltins stores under
\* tag id; a custom handler is one the caller passes to Register; None is a
\* tag absent from the map.
Builtin(id) == "builtin:" \o id
Custom(id) == "custom:" \o id
None == ""

\* What a call leaves behind: the (string, error) it returns, the compiler's
\* indent field after it, and the record of the compileNode calls made, in
\* the order they were made (kept for the properties, not read by the code).
Ret(text, err, indent, log) == [text |-> text, err |-> err, indent |-> indent, log |-> log]

\* one compileNode call: the node's place in the tree (child indexes from the
\* root), its tag, the indent field at the call, and what the call returned
Visit(path, tag, at, text, err) ==
    [path |-> path, tag |-> tag, at |-> at, text |-> text, err |-> err]

LocalPrefix(node) == IF GetBoolAttr(node, "local") THEN <<"local", " ">> ELSE <<>>

HandlerSet(node, indent) ==
    LET varName == GetAttr(node, "var")
        value == TrimSpace(node.Content)
    IN  IF varName = <<>>
        THEN Ret(<<>>, Errorf("set command requires 'var' attribute"), indent, <<>>)
        ELSE IF ~IsValidIdentifier(varName)
        THEN Ret(<<>>, ErrorfS("invalid variable name: ", varName), indent, <<>>)
        ELSE IF value = <<>>
        THEN Ret(<<>>, Errorf("set command requires a value"), indent, <<>>)
        ELSE Ret(getIndent(indent) \o LocalPrefix(node) \o varName \o <<" ", "=", " ">> \o value,
                 NoErr, indent, <<>>)

HandlerBreak(node, indent) == Ret(getIndent(indent) \o <<"break">>, NoErr, indent, <<>>)

\* the arg / item children's trimmed content, the empty ones dropped
RECURSIVE ChildValues(_, _)
ChildValues(kids, tag) ==
    IF kids = <<>> THEN <<>>
    ELSE (IF Head(kids).tag = tag /\ TrimSpace(Head(kids).Content) # <<>>
          THEN <<TrimSpace(Head(kids).Content)>> ELSE <<>>)
         \o ChildValues(Tail(kids), tag)

InlineFirst(node) ==
    IF TrimSpace(node.Content) # <<>> THEN <<TrimSpace(node.Content)>> ELSE <<>>

\* a call handler that leaves out the inline first argument
HandlerCallChildrenOnly(node, indent) ==
    LET name == GetAttr(node, "name")
        args == ChildValues(node.Nodes, "arg")
    IN  IF name = <<>>
        THEN Ret(<<>>, Errorf("call command requires 'name' attribute"), indent, <<>>)
        ELSE Ret(getIndent(indent) \o name \o <<"(">> \o JoinWithCommas(args) \o <<")">>,
                 NoErr, indent, <<>>)

HandlerCall(node, indent) ==
    LET name == GetAttr(node, "name")
        args == InlineFirst(node) \o ChildValues(node.Nodes, "arg")
    IN  IF name = <<>>
        THEN Ret(<<>>, Errorf("call command requires 'name' attribute"), indent, <<>>)
        ELSE Ret(getIndent(indent) \o name \o <<"(">> \o JoinWithCommas(args) \o <<")">>,
                 NoErr, indent, <<>>)

HandlerReturn(node, indent) ==
    LET content == TrimSpace(node.Content)
    IN  IF content = <<>>
        THEN Ret(getIndent(indent) \o <<"return">>, NoErr, indent, <<>>)
        ELSE Ret(getIndent(indent) \o <<"return", " ">> \o content, NoErr, indent, <<>>)

\* a sub-element handler that writes the content as a statement
HandlerSubWritesContent(node, indent) ==
    Ret(getIndent(indent) \o TrimSpace(node.Content), NoErr, indent, <<>>)

\* arg, entry, item: read by the parent handler
HandlerSub(node, indent) == Ret(<<>>, NoErr, indent, <<>>)

\* the lines of the entry children, written at the given indent
RECURSIVE TableEntries(_, _)

\* a table that writes the entries without a key or without a value too
TableEntriesKeepsEmpty(kids, indent) ==
    IF kids = <<>> THEN <<>>
    ELSE LET child == Head(kids)
             key == GetAttr(child, "key")
             value == TrimSpace(child.Content)
         IN  (IF child.tag = "entry"
              THEN IF IsValidIdentifier(key)
                   THEN getIndent(indent) \o key \o <<" ", "=", " ">> \o value \o <<",", "\n">>
                   ELSE getIndent(indent) \o <<"[">> \o WrapInQuotes(key)
                        \o <<"]", " ", "=", " ">> \o value \o <<",", "\n">>
              ELSE <<>>)
             \o TableEntries(Tail(kids), indent)

TableEntries(kids, indent) ==
    IF kids = <<>> THEN <<>>
    ELSE LET child == Head(kids)
             key == GetAttr(child, "key")
             value == TrimSpace(child.Content)
         IN  (IF child.tag = "entry" /\ key # <<>> /\ value # <<>>
              THEN IF IsValidIdentifier(key)
                   THEN getIndent(indent) \o key \o <<" ", "=", " ">> \o value \o <<",", "\n">>
                   ELSE getIndent(indent) \o <<"[">> \o WrapInQuotes(key)
                        \o <<"]", " ", "=", " ">> \o value \o <<",", "\n">>
              ELSE <<>>)
             \o TableEntries(Tail(kids), indent)

HandlerTable(node, indent) ==
    LET varName == GetAttr(node, "var")
    IN  IF varName # <<>>
        THEN IF ~IsValidIdentifier(varName)
             THEN Ret(<<>>, ErrorfS("invalid variable name: ", varName), indent, <<>>)
             ELSE Ret(getIndent(indent) \o LocalPrefix(node) \o varName \o <<" ", "=", " ", "{", "\n">>
                      \o TableEntries(node.Nodes, indent + 1)
                      \o getIndent((indent + 1) - 1) \o <<"}">>,
                      NoErr, (indent + 1) - 1, <<>>)
        ELSE Ret(<<"{", "\n">> \o TableEntries(node.Nodes, indent + 1)
                 \o getIndent((indent + 1) - 1) \o <<"}">>,
                 NoErr, (indent + 1) - 1, <<>>)

HandlerArray(node, indent) ==
    LET varName == GetAttr(node, "var")
        values == InlineFirst(node) \o ChildValues(node.Nodes, "item")
        arrayContent == JoinWithCommas(values)
    IN  IF varName # <<>>
        THEN IF ~IsValidIdentifier(varName)
             THEN Ret(<<>>, ErrorfS("invalid variable name: ", varName), indent, <<>>)
             ELSE Ret(getIndent(indent) \o LocalPrefix(node) \o varName
                      \o <<" ", "=", " ", "{">> \o arrayContent \o <<"}">>,
                      NoErr, indent, <<>>)
        ELSE Ret(<<"{">> \o arrayContent \o <<"}">>, NoErr, indent, <<>>)

\* a print handler that writes every content as a quoted literal
HandlerPrintQuotesAll(node, indent, fn) ==
    LET content == TrimSpace(node.Content)
    IN  IF content = <<>>
        THEN Ret(<<>>, Errorf(fn \o " command requires content"), indent, <<>>)
        ELSE Ret(getIndent(indent) \o <<fn, "(", "\"">> \o Interpolate(content) \o <<"\"", ")">>,
                 NoErr, indent, <<>>)

\* print, warn: fn is the Luau function, which is also the tag
HandlerPrint(node, indent, fn) ==
    LET content == TrimSpace(node.Content)
    IN  IF content = <<>>
        THEN Ret(<<>>, Errorf(fn \o " command requires content"), indent, <<>>)
        ELSE IF ContainsOpen(content)
        THEN Ret(getIndent(indent) \o <<fn, "(", "\"">> \o Interpolate(content) \o <<"\"", ")">>,
                 NoErr, indent, <<>>)
        ELSE Ret(getIndent(indent) \o <<fn, "(">> \o content \o <<")">>, NoErr, indent, <<>>)

HandlerError(node, indent) ==
    LET content == TrimSpace(node.Content)
        level == GetAttrWithDefault(node, "level", <<"1">>)
    IN  IF content = <<>>
        THEN Ret(<<>>, Errorf("error command requires content"), indent, <<>>)
        ELSE IF ContainsOpen(content)
        THEN Ret(getIndent(indent) \o <<"error", "(", "\"">> \o Interpolate(content)
                 \o <<"\"", ",", " ">> \o level \o <<")">>, NoErr, indent, <<>>)
        ELSE Ret(getIndent(indent) \o <<"error", "(">> \o content \o <<",", " ">> \o level \o <<")">>,
                 NoErr, indent, <<>>)

HandlerRaw(node, indent) ==
    LET content == TrimSpace(node.Content)
    IN  IF content = <<>> THEN Ret(<<>>, NoErr, indent, <<>>)
        ELSE Ret(IndentLines(content, getIndent(indent)), NoErr, indent, <<>>)

HandlerComment(node, indent) ==
    LET content == TrimSpace(node.Content)
    IN  IF content = <<>> THEN Ret(<<>>, NoErr, indent, <<>>)
        ELSE Ret(IndentLines(FormatComment(content), getIndent(indent)), NoErr, indent, <<>>)

HandlerAssert(node, indent) ==
    LET condition == GetAttr(node, "test")
        message == TrimSpace(node.Content)
    IN  IF condition = <<>>
        THEN Ret(<<>>, Errorf("assert command requires 'test' attribute"), indent, <<>>)
        ELSE IF message # <<>>
        THEN Ret(getIndent(indent) \o <<"assert", "(">> \o condition \o <<",", " ">>
                 \o WrapInQuotes(message) \o <<")">>, NoErr, indent, <<>>)
        ELSE Ret(getIndent(indent) \o <<"assert", "(">> \o condition \o <<")">>, NoErr, indent, <<>>)

\* a typeof handler that accepts a var without content
HandlerTypeofLenient(node, indent) ==
    LET varName == GetAttr(node, "var")
        value == TrimSpace(node.Content)
    IN  IF varName = <<>> /\ value = <<>>
        THEN Ret(<<>>, Errorf("typeof command requires either 'var' attribute or content"),
                 indent, <<>>)
        ELSE IF varName # <<>>
        THEN IF ~IsValidIdentifier(varName)
             THEN Ret(<<>>, ErrorfS("invalid variable name: ", varName), indent, <<>>)
             ELSE Ret(getIndent(indent) \o LocalPrefix(node) \o varName
                      \o <<" ", "=", " ", "typeof", "(">> \o value \o <<")">>, NoErr, indent, <<>>)
        ELSE Ret(<<"typeof", "(">> \o value \o <<")">>, NoErr, indent, <<>>)

HandlerTypeof(node, indent) ==
    LET varName == GetAttr(node, "var")
        value == TrimSpace(node.Content)
    IN  IF varName = <<>> /\ value = <<>>
        THEN Ret(<<>>, Errorf("typeof command requires either 'var' attribute or content"),
                 indent, <<>>)
        ELSE IF varName # <<>>
        THEN IF ~IsValidIdentifier(varName)
             THEN Ret(<<>>, ErrorfS("invalid variable name: ", varName), indent, <<>>)
             ELSE IF value = <<>>
             THEN Ret(<<>>, Errorf("typeof command with 'var' requires content"), indent, <<>>)
             ELSE Ret(getIndent(indent) \o LocalPrefix(node) \o varName
                      \o <<" ", "=", " ", "typeof", "(">> \o value \o <<")">>, NoErr, indent, <<>>)
        ELSE Ret(<<"typeof", "(">> \o value \o <<")">>, NoErr, indent, <<>>)

RECURSIVE compileNode(_, _, _, _)

\* The loop every block handler runs over node.Nodes: compile child i with
\* the compiler as the earlier children left it; return "" and the error at
\* the first error; append a non-empty result and "\n" otherwise.
RECURSIVE CompileChildren(_, _, _, _, _, _, _)

\* a loop that goes on to the next child after an error
ChildDoneKeepsGoing(r, kids, i, path, handlers, result, log) ==
    CompileChildren(kids, i + 1, path, handlers, r.indent,
                    IF r.text # <<>> THEN result \o r.text \o <<"\n">> ELSE result,
                    log \o r.log)

\* the body of the loop, r being what compileNode(kids[i]) returned
ChildDone(r, kids, i, path, handlers, result, log) ==
    IF ~r.err.nil THEN Ret(<<>>, r.err, r.indent, log \o r.log)
    ELSE CompileChildren(kids, i + 1, path, handlers, r.indent,
                         IF r.text # <<>> THEN result \o r.text \o <<"\n">> ELSE result,
                         log \o r.log)

CompileChildren(kids, i, path, handlers, indent, result, log) ==
    IF i > Len(kids) THEN Ret(result, NoErr, indent, log)
    ELSE ChildDone(compileNode(kids[i], path \o <<i>>, handlers, indent),
                   kids, i, path, handlers, result, log)

\* compiler.indent-- after the loop, which an error return does not reach
Decrement(b) == IF ~b.err.nil THEN b ELSE [b EXCEPT !.indent = b.indent - 1]

\* compiler.indent++, the loop, compiler.indent--
Body(node, path, handlers, indent, header) ==
    Decrement(CompileChildren(node.Nodes, 1, path, handlers, indent + 1, header, <<>>))

\* result += compiler.getIndent() + terminator after the body, for the
\* handlers that write one (terminator is <<text>>, or <<>> for elseif, else)
Terminate(b, terminator) ==
    IF ~b.err.nil \/ terminator = <<>> THEN b
    ELSE [b EXCEPT !.text = b.text \o getIndent(b.indent) \o terminator[1]]

\* The part of each block handler before compiler.indent++: the checks of
\* the attributes and the header line, written at the current indent.
IfHeader(node, indent) ==
    LET test == GetAttr(node, "test")
    IN  IF test = <<>>
        THEN Ret(<<>>, Errorf("if command requires 'test' attribute"), indent, <<>>)
        ELSE Ret(getIndent(indent) \o <<"if", " ">> \o test \o <<" ", "then", "\n">>,
                 NoErr, indent, <<>>)

ElseifHeader(node, indent) ==
    LET test == GetAttr(node, "test")
    IN  IF test = <<>>
        THEN Ret(<<>>, Errorf("elseif command requires 'test' attribute"), indent, <<>>)
        ELSE Ret(getIndent(indent) \o <<"elseif", " ">> \o test \o <<" ", "then", "\n">>,
                 NoErr, indent, <<>>)

ElseHeader(node, indent) == Ret(getIndent(indent) \o <<"else", "\n">>, NoErr, indent, <<>>)

\* a for handler without the IsValidIdentifier check
ForHeaderUnchecked(node, indent) ==
    LET varName == GetAttr(node, "var")
        from == GetAttr(node, "from")
        to == GetAttr(node, "to")
        step == GetAttrWithDefault(node, "step", <<"1">>)
        iterator == GetAttr(node, "in")
    IN  IF varName = <<>>
        THEN Ret(<<>>, Errorf("for command requires 'var' attribute"), indent, <<>>)
        ELSE IF from # <<>> /\ to # <<>>
        THEN IF step # <<"1">>
             THEN Ret(getIndent(indent) \o <<"for", " ">> \o varName \o <<" ", "=", " ">>
                      \o from \o <<",", " ">> \o to \o <<",", " ">> \o step
                      \o <<" ", "do", "\n">>, NoErr, indent, <<>>)
             ELSE Ret(getIndent(indent) \o <<"for", " ">> \o varName \o <<" ", "=", " ">>
                      \o from \o <<",", " ">> \o to \o <<" ", "do", "\n">>, NoErr, indent, <<>>)
        ELSE IF iterator = <<>>
        THEN Ret(<<>>, Errorf("for command requires either 'from'/'to' or 'in' attributes"),
                 indent, <<>>)
        ELSE Ret(getIndent(indent) \o <<"for", " ">> \o varName \o <<" ", "in", " ">>
                 \o iterator \o <<" ", "do", "\n">>, NoErr, indent, <<>>)

ForHeader(node, indent) ==
    LET varName == GetAttr(node, "var")
        from == GetAttr(node, "from")
        to == GetAttr(node, "to")
        step == GetAttrWithDefault(node, "step", <<"1">>)
        iterator == GetAttr(node, "in")
    IN  IF varName = <<>>
        THEN Ret(<<>>, Errorf("for command requires 'var' attribute"), indent, <<>>)
        ELSE IF ~IsValidIdentifier(varName)
        THEN Ret(<<>>, ErrorfS("invalid variable name: ", varName), indent, <<>>)
        ELSE IF from # <<>> /\ to # <<>>
        THEN IF step # <<"1">>
             THEN Ret(getIndent(indent) \o <<"for", " ">> \o varName \o <<" ", "=", " ">>
                      \o from \o <<",", " ">> \o to \o <<",", " ">> \o step
                      \o <<" ", "do", "\n">>, NoErr, indent, <<>>)
             ELSE Ret(getIndent(indent) \o <<"for", " ">> \o varName \o <<" ", "=", " ">>
                      \o from \o <<",", " ">> \o to \o <<" ", "do", "\n">>, NoErr, indent, <<>>)
        ELSE IF iterator = <<>>
        THEN Ret(<<>>, Errorf("for command requires either 'from'/'to' or 'in' attributes"),
                 indent, <<>>)
        ELSE Ret(getIndent(indent) \o <<"for", " ">> \o varName \o <<" ", "in", " ">>
                 \o iterator \o <<" ", "do", "\n">>, NoErr, indent, <<>>)

WhileHeader(node, indent) ==
    LET test == GetAttr(node, "test")
    IN  IF test = <<>>
        THEN Ret(<<>>, Errorf("while command requires 'test' attribute"), indent, <<>>)
        ELSE Ret(getIndent(indent) \o <<"while", " ">> \o test \o <<" ", "do", "\n">>,
                 NoErr, indent, <<>>)

RepeatHeader(node, indent) ==
    IF GetAttr(node, "until") = <<>>
    THEN Ret(<<>>, Errorf("repeat command requires 'until' attribute"), indent, <<>>)
    ELSE Ret(getIndent(indent) \o <<"repeat", "\n">>, NoErr, indent, <<>>)

FunctionHeader(node, indent) ==
    LET name == GetAttr(node, "name")
        params == GetAttrWithDefault(node, "params", <<>>)
    IN  IF name = <<>>
        THEN Ret(<<>>, Errorf("function command requires 'name' attribute"), indent, <<>>)
        ELSE IF ~IsValidIdentifier(name)
        THEN Ret(<<>>, ErrorfS("invalid function name: ", name), indent, <<>>)
        ELSE Ret(getIndent(indent) \o LocalPrefix(node) \o <<"function", " ">> \o name
                 \o <<"(">> \o params \o <<")", "\n">>, NoErr, indent, <<>>)

BlockTags == {"if", "elseif", "else", "for", "while", "repeat", "function"}

\* the header part of the built-in of a block tag
Header(tag, node, indent) ==
    CASE tag = "if" -> IfHeader(node, indent)
      [] tag = "elseif" -> ElseifHeader(node, indent)
      [] tag = "else" -> ElseHeader(node, indent)
      [] tag = "for" -> ForHeader(node, indent)
      [] tag = "while" -> WhileHeader(node, indent)
      [] tag = "repeat" -> RepeatHeader(node, indent)
      [] OTHER -> FunctionHeader(node, indent)

\* every block handler writes a terminator
TerminatorForAll(tag, node) ==
    IF tag = "repeat" THEN <<<<"until", " ">> \o GetAttr(node, "until")>> ELSE <<<<"end">>>>

\* what the built-in of a block tag writes after the body
Terminator(tag, node) ==
    CASE tag \in {"if", "for", "while", "function"} -> <<<<"end">>>>
      [] tag = "repeat" -> <<<<"until", " ">> \o GetAttr(node, "until")>>
      [] OTHER -> <<>>

\* a block handler from its header h on: an early return, or body and terminator
AfterHeader(h, tag, node, path, handlers) ==
    IF ~h.err.nil THEN h
    ELSE Terminate(Body(node, path, handlers, h.indent, h.text), Terminator(tag, node))

\* the built-ins of if, elseif, else, for, while, repeat, function
HandlerBlock(tag, node, path, handlers, indent) ==
    AfterHeader(Header(tag, node, indent), tag, node, path, handlers)

\* The handlers a caller registers.  "emit" writes a statement at the current
\* indent (as the log handler of TestCustomHandler does), "fail" returns an
\* error, "partial" returns text together with an error.
CustomHandlers == {Custom("emit"), Custom("fail"), Custom("partial")}

CustomHandler(h, node, indent) ==
    CASE h = Custom("emit") ->
            Ret(getIndent(indent) \o <<"emit", "(">> \o TrimSpace(node.Content) \o <<")">>,
                NoErr, indent, <<>>)
      [] h = Custom("fail") -> Ret(<<>>, Errorf("custom handler failed"), indent, <<>>)
      [] OTHER -> Ret(<<"partial">>, Errorf("custom handler failed"), indent, <<>>)

BuiltinTags ==
    BlockTags \cup {"set", "break", "call", "return", "arg", "table", "entry", "array",
                    "item", "print", "warn", "error", "raw", "comment", "assert", "typeof"}

\* handler(node, c) for a registry entry h
CallHandler(h, node, path, handlers, indent) ==
    IF h \in CustomHandlers THEN CustomHandler(h, node, indent)
    ELSE CASE h = Builtin("set") -> HandlerSet(node, indent)
           [] h = Builtin("if") -> HandlerBlock("if", node, path, handlers, indent)
           [] h = Builtin("elseif") -> HandlerBlock("elseif", node, path, handlers, indent)
           [] h = Builtin("else") -> HandlerBlock("else", node, path, handlers, indent)
           [] h = Builtin("for") -> HandlerBlock("for", node, path, handlers, indent)
           [] h = Builtin("while") -> HandlerBlock("while", node, path, handlers, indent)
           [] h = Builtin("repeat") -> HandlerBlock("repeat", node, path, handlers, indent)
           [] h = Builtin("break") -> HandlerBreak(node, indent)
           [] h = Builtin("function") -> HandlerBlock("function", node, path, handlers, indent)
           [] h = Builtin("call") -> HandlerCall(node, indent)
           [] h = Builtin("return") -> HandlerReturn(node, indent)
           [] h = Builtin("arg") -> HandlerSub(node, indent)
           [] h = Builtin("entry") -> HandlerSub(node, indent)
           [] h = Builtin("item") -> HandlerSub(node, indent)
           [] h = Builtin("table") -> HandlerTable(node, indent)
           [] h = Builtin("array") -> HandlerArray(node, indent)
           [] h = Builtin("print") -> HandlerPrint(node, indent, "print")
           [] h = Builtin("warn") -> HandlerPrint(node, indent, "warn")
           [] h = Builtin("error") -> HandlerError(node, indent)
           [] h = Builtin("raw") -> HandlerRaw(node, indent)
           [] h = Builtin("comment") -> HandlerComment(node, indent)
           [] h = Builtin("assert") -> HandlerAssert(node, indent)
           [] OTHER -> HandlerTypeof(node, indent)

\* the record of a compileNode call put before the calls its handler made
Visited(r, path, tag, at) == [r EXCEPT !.log = <<Visit(path, tag, at, r.text, r.err)>> \o r.log]

\* a compileNode that passes over a tag without a handler
compileNodeSkipsUnknown(node, path, handlers, indent) ==
    IF node.tag = "" \/ handlers[node.tag] = None
    THEN Visited(Ret(<<>>, NoErr, indent, <<>>), path, node.tag, indent)
    ELSE Visited(CallHandler(handlers[node.tag], node, path, handlers, indent),
                 path, node.tag, indent)

compileNode(node, path, handlers, indent) ==
    IF node.tag = ""
    THEN IF TrimSpace(node.Content) = <<>>
         THEN Visited(Ret(<<>>, NoErr, indent, <<>>), path, node.tag, indent)
         ELSE Visited(Ret(<<>>, ErrorfS("unexpected text content: ", TrimSpace(node.Content)),
                          indent, <<>>), path, node.tag, indent)
    ELSE IF handlers[node.tag] = None
    THEN Visited(Ret(<<>>, ErrorfS("unknown tag: ", <<node.tag>>), indent, <<>>),
                 path, node.tag, indent)
    ELSE Visited(CallHandler(handlers[node.tag], node, path, handlers, indent),
                 path, node.tag, indent)

\* the loop of CompileFromString over the children of a script root
RECURSIVE ScriptChildren(_, _, _, _, _, _)

\* a loop that keeps the empty results
ScriptChildKeepsEmpty(r, kids, i, handlers, results, log) ==
    IF ~r.err.nil THEN Ret(<<>>, r.err, r.indent, log \o r.log)
    ELSE ScriptChildren(kids, i + 1, handlers, r.indent, Append(results, r.text), log \o r.log)

\* the body of that loop, r being what compileNode(child) returned
ScriptChildDone(r, kids, i, handlers, results, log) ==
    IF ~r.err.nil THEN Ret(<<>>, r.err, r.indent, log \o r.log)
    ELSE ScriptChildren(kids, i + 1, handlers, r.indent,
                        IF r.text # <<>> THEN Append(results, r.text) ELSE results,
                        log \o r.log)

ScriptChildren(kids, i, handlers, indent, results, log) ==
    IF i > Len(kids) THEN Ret(Join(results, <<"\n">>), NoErr, indent, log)
    ELSE ScriptChildDone(compileNode(kids[i], <<i>>, handlers, indent),
                         kids, i, handlers, results, log)

\* A document is what xml.Unmarshal makes of the input: a root Node, or an error.
Parsed(root) == [ok |-> TRUE, root |-> root]
Malformed == [ok |-> FALSE, root |-> Node("", <<>>, <<>>, <<>>)]

CompileFromString(doc, handlers, indent) ==
    IF ~doc.ok THEN Ret(<<>>, Errorf("XML parse error: "), indent, <<>>)
    ELSE IF doc.root.tag = "script"
    THEN ScriptChildren(doc.root.Nodes, 1, handlers, indent, <<>>, <<>>)
    ELSE compileNode(doc.root, <<>>, handlers, indent)

-----------------------------------------------------------------------------
(* Compiler values *)

\* every tag name that occurs in a document or in a Register call
TagNames == BuiltinTags \cup {"script", "log", "bogus"}

\* c.handlers after registerBuiltins
registerBuiltins == [t \in TagNames |-> IF t \in BuiltinTags THEN Builtin(t) ELSE None]

\* the Compiler NewCompiler returns
NewCompilerValue == [handlers |-> registerBuiltins, indent |-> 0]

-----------------------------------------------------------------------------
(* Bounds and inputs *)

MaxIndent == 2    \* a compile call runs only if it leaves indent <= MaxIndent
MaxKids == 2      \* longest generated list of children
MaxDepth == 2     \* deepest generated nesting of blocks

SeqsUpTo(S, n) == UNION {[1..k -> S] : k \in 0..n}

SetOk == Node("set", <<Attr("var", <<"x">>), Attr("local", <<"1">>)>>, <<" ", "1">>, <<>>)
SetNoVar == Node("set", <<Attr("local", <<"1">>)>>, <<"1">>, <<>>)
SetBadVar == Node("set", <<Attr("var", <<"1", "x">>)>>, <<"1">>, <<>>)
SetKeyword == Node("set", <<Attr("var", <<"e", "n", "d">>)>>, <<"1">>, <<>>)
SetNoValue == Node("set", <<Attr("var", <<"x">>)>>, <<" ">>, <<>>)
Bogus == Node("bogus", <<>>, <<"m">>, <<>>)
LogNode == Node("log", <<>>, <<"m">>, <<>>)
TypeofBare == Node("typeof", <<>>, <<"x">>, <<>>)
TypeofVar == Node("typeof", <<Attr("var", <<"t">>)>>, <<"x">>, <<>>)
TypeofNone == Node("typeof", <<>>, <<>>, <<>>)
ArgA == Node("arg", <<>>, <<"a">>, <<>>)
ItemA == Node("item", <<>>, <<"1">>, <<>>)
EntryA == Node("entry", <<Attr("key", <<"k">>)>>, <<"1">>, <<>>)
CallOk == Node("call", <<Attr("name", <<"f">>)>>, <<>>, <<ArgA, Bogus>>)
CallNoName == Node("call", <<>>, <<>>, <<ArgA, Bogus>>)
CallBadName == Node("call", <<Attr("name", <<"1", "x">>)>>, <<>>, <<ArgA, Bogus>>)
ArrayInline == Node("array", <<>>, <<>>, <<ItemA>>)
ArrayVar == Node("array", <<Attr("var", <<"a">>)>>, <<>>, <<ItemA>>)
TableInline == Node("table", <<>>, <<>>, <<EntryA>>)
TableVar == Node("table", <<Attr("var", <<"t">>)>>, <<>>, <<EntryA>>)
AssertOk == Node("assert", <<Attr("test", <<"c">>)>>, <<"m", " ", "n">>, <<>>)
AssertNoTest == Node("assert", <<>>, <<"m">>, <<SetOk>>)
Break == Node("break", <<>>, <<>>, <<>>)
Return == Node("return", <<>>, <<"x">>, <<>>)
PrintOk == Node("print", <<>>, <<"{", "{", "x", "}", "}">>, <<>>)
RawOk == Node("raw", <<>>, <<"a", "\n", " ", "\n", "b">>, <<>>)
CommentOk == Node("comment", <<>>, <<"a", "\n", "b">>, <<>>)
Blank == Node("", <<>>, <<" ", "\n">>, <<>>)
Text == Node("", <<>>, <<"t">>, <<>>)

Leaves ==
    { SetOk, SetNoVar, SetBadVar, SetKeyword, SetNoValue, Bogus, LogNode, TypeofBare, TypeofVar,
      TypeofNone, ArgA, ItemA, EntryA, CallOk, CallNoName, CallBadName, ArrayInline, ArrayVar,
      TableInline, TableVar, AssertOk, AssertNoTest, Break, Return, PrintOk, RawOk,
      CommentOk, Blank, Text }

\* the attributes a block needs to compile
GoodAttrs(t) ==
    CASE t \in {"if", "elseif", "while"} -> <<Attr("test", <<"c">>)>>
      [] t = "for" -> <<Attr("var", <<"i">>), Attr("from", <<"1">>), Attr("to", <<"9">>)>>
      [] t = "repeat" -> <<Attr("until", <<"c">>)>>
      [] t = "function" -> <<Attr("name", <<"f">>), Attr("local", <<"t", "r", "u", "e">>)>>
      [] OTHER -> <<>>

\* the required attribute absent, present but empty, or not an identifier
BadAttrs(t) ==
    CASE t \in {"if", "elseif", "while"} -> {<<>>, <<Attr("test", <<>>)>>}
      [] t = "for" -> { <<Attr("from", <<"1">>), Attr("to", <<"9">>)>>,
                        <<Attr("var", <<>>), Attr("in", <<"p">>)>>,
                        <<Attr("var", <<"k", ",", " ", "v">>), Attr("in", <<"p">>)>>,
                        <<Attr("var", <<"i">>), Attr("from", <<"1">>)>> }
      [] t = "repeat" -> {<<>>}
      [] t = "function" -> {<<>>, <<Attr("name", <<"1", "x">>)>>, <<Attr("name", <<"i", "f">>)>>}
      [] OTHER -> {}

KidLeaves == {SetOk, Bogus, TypeofBare, LogNode}

\* blocks of depth 1: every block tag over a few bodies, "if" over every body
Blocks1 ==
    {Node(t, GoodAttrs(t), <<>>, b) :
        t \in BlockTags, b \in {<<>>, <<SetOk, Blank>>, <<ArrayInline, SetNoVar>>}}
    \cup {Node("if", GoodAttrs("if"), <<" ">>, b) : b \in SeqsUpTo(KidLeaves, MaxKids)}

\* blocks whose own attributes are rejected; their children are valid or not
BadBlocks ==
    UNION {{Node(t, a, <<>>, <<SetOk, Bogus>>) : a \in BadAttrs(t)} : t \in BlockTags}

RECURSIVE Nest(_, _)
Nest(inner, d) ==
    IF d <= 1 THEN inner
    ELSE Nest(Node("for", GoodAttrs("for"), <<>>, <<SetOk, inner, TableInline>>), d - 1)

Cores ==
    {Node(t, GoodAttrs(t), <<>>, b) :
        t \in {"if", "else"}, b \in {<<TypeofBare>>, <<Bogus, SetNoVar>>, <<LogNode, SetNoVar>>}}

Nested == {Nest(c, d) : c \in Cores, d \in 2..MaxDepth}

Scripts ==
    {Node("script", <<>>, <<>>, b) :
        b \in { <<>>, <<SetOk>>, <<SetOk, ArgA, Blank, Break>>, <<Bogus, SetNoVar>>,
                <<SetOk, Text>>, <<LogNode, SetOk>>, <<RawOk, CommentOk>>,
                <<Node("if", GoodAttrs("if"), <<>>, <<SetOk, Bogus, Text>>), SetNoVar>>,
                <<Node("elseif", GoodAttrs("elseif"), <<>>, <<SetOk>>), SetOk>>,
                <<Node("script", <<>>, <<>>, <<>>)>> }}

Roots == Leaves \cup Blocks1 \cup BadBlocks \cup Nested \cup Scripts

Docs == {Parsed(r) : r \in Roots} \cup {Malformed}

\* what callers register: a new tag, a replacement for it, a shadowed built-in
Registrations == {<<"log", Custom("emit")>>, <<"log", Custom("fail")>>, <<"set", Custom("partial")>>}

-----------------------------------------------------------------------------
(* The API, called from one goroutine *)

\* the record of the latest API call: the operation, the instance, and for a
\* compile call the document, the indent field before it and what it returned;
\* for a Register call the tag, the handler and the handler it replaced
NoCall ==
    [op |-> "none", inst |-> "default", doc |-> Malformed, before |-> 0,
     tag |-> "", handler |-> None, replaced |-> None, res |-> Ret(<<>>, NoErr, 0, <<>>)]

\* no call kept
NoMemo == [call |-> NoCall, handlers |-> <<>>]

\* no helper function applied
NoApp == [fn |-> "none", arg |-> <<>>, out |-> <<>>]

\* the goroutines that make compile calls at the same time
Goroutines == {"g1", "g2"}

\* a goroutine that has made no call
Idle ==
    [phase |-> "idle", inst |-> "default", doc |-> Malformed, stack |-> <<>>, mixed |-> FALSE,
     res |-> [text |-> <<>>, err |-> NoErr]]

Init ==
    /\ comp = [i \in {"default"} |-> NewCompilerValue]
    /\ last = NoCall
    /\ memo = NoMemo
    /\ run = [g \in Goroutines |-> Idle]
    /\ app = NoApp

\* c := NewCompiler(), for a variable c that holds no instance yet
NewCompiler(i) ==
    /\ i \notin DOMAIN comp
    /\ comp' = [j \in DOMAIN comp \cup {i} |-> IF j = i THEN NewCompilerValue ELSE comp[j]]
    /\ last' = [NoCall EXCEPT !.op = "new", !.inst = i]
    /\ UNCHANGED <<memo, run, app>>

\* a Register that keeps a handler already stored under the tag
RegisterKeepsFirst(i, tag, handler) ==
    /\ i \in DOMAIN comp
    /\ comp' = IF comp[i].handlers[tag] = None
               THEN [comp EXCEPT ![i].handlers[tag] = handler]
               ELSE comp
    /\ last' = [NoCall EXCEPT !.op = "register", !.inst = i, !.tag = tag, !.handler = handler,
                              !.replaced = comp[i].handlers[tag]]
    /\ UNCHANGED <<memo, run, app>>

\* a Register that writes to one map shared by every instance
RegisterShared(i, tag, handler) ==
    /\ i \in DOMAIN comp
    /\ comp' = [j \in DOMAIN comp |-> [comp[j] EXCEPT !.handlers[tag] = handler]]
    /\ last' = [NoCall EXCEPT !.op = "register", !.inst = i, !.tag = tag, !.handler = handler,
                              !.replaced = comp[i].handlers[tag]]
    /\ UNCHANGED <<memo, run, app>>

\* c.Register(tag, handler); Register(tag, handler) for the default instance
Register(i, tag, handler) ==
    /\ i \in DOMAIN comp
    /\ comp' = [comp EXCEPT ![i].handlers[tag] = handler]
    /\ last' = [NoCall EXCEPT !.op = "register", !.inst = i, !.tag = tag, !.handler = handler,
                              !.replaced = comp[i].handlers[tag]]
    /\ UNCHANGED <<memo, run, app>>

\* a write of the indent field of the instance everything is shared through
SetIndentShared(c, i, n) == [j \in DOMAIN c |-> [c[j] EXCEPT !.indent = n]]

\* compiler.indent++ and compiler.indent--: a write of instance i's field
SetIndent(c, i, n) == [c EXCEPT ![i].indent = n]

\* the call returns res: the instance keeps the indent the walk left
Returned(i, doc, res) ==
    /\ res.indent <= MaxIndent
    /\ comp' = SetIndent(comp, i, res.indent)
    /\ last' = [NoCall EXCEPT !.op = "compile", !.inst = i, !.doc = doc,
                              !.before = comp[i].indent, !.res = res]

\* c.CompileFromString(s); CompileString(s) for the default instance
Compile(i, doc) ==
    /\ i \in DOMAIN comp
    /\ Returned(i, doc, CompileFromString(doc, comp[i].handlers, comp[i].indent))
    /\ UNCHANGED <<memo, run, app>>

\* the package-level API: Register, Compile, CompileString, CompileReader
Next ==
    \/ \E r \in Registrations : Register("default", r[1], r[2])
    \/ \E doc \in Docs : Compile("default", doc)

Spec == Init /\ [][Next]_vars

-----------------------------------------------------------------------------
(* Two instances: the default one and one the caller makes *)

\* defaultCompiler, and a variable the caller assigns NewCompiler() to
Instances == {"default", "private"}

IsoDocs ==
    {Parsed(r) : r \in { SetOk, LogNode,
                         Node("if", GoodAttrs("if"), <<>>, <<SetOk>>),
                         Node("if", GoodAttrs("if"), <<>>, <<Bogus>>),
                         Node("script", <<>>, <<>>, <<LogNode, SetOk>>) }}

NextIso ==
    \/ \E i \in Instances : NewCompiler(i)
    \/ \E i \in Instances, r \in Registrations : Register(i, r[1], r[2])
    \/ \E i \in Instances, doc \in IsoDocs : Compile(i, doc)

SpecIso == Init /\ [][NextIso]_vars

-----------------------------------------------------------------------------
(* One instance, an earlier call kept to compare a later one with *)

DetDocs ==
    {Parsed(r) : r \in { SetOk, LogNode,
                         Node("if", GoodAttrs("if"), <<>>, <<SetOk>>),
                         Node("if", GoodAttrs("if"), <<>>, <<Bogus>>),
                         Node("script", <<>>, <<>>, <<LogNode, SetOk>>) }}

\* keep the latest compile call, and the registry it ran with
Remember ==
    /\ last.op = "compile"
    /\ memo' = [call |-> last, handlers |-> comp[last.inst].handlers]
    /\ UNCHANGED <<comp, last, run, app>>

NextDet ==
    \/ \E r \in Registrations : Register("default", r[1], r[2])
    \/ \E doc \in DetDocs : Compile("default", doc)
    \/ Remember

SpecDet == Init /\ [][NextDet]_vars

-----------------------------------------------------------------------------
(* Compile calls made at the same time.  A call is a stack of compileNode
   frames, and a step holds at most one read or one write of the indent field
   of the call's compiler: the header of a block (getIndent), the read and
   the write of indent++, the call for the next child, the read and the write
   of indent--, the terminator (getIndent), or a whole handler that compiles
   no children.  In SpecConc every call has an instance of its own; in
   SpecShared the calls go through the default instance, as concurrent calls
   of the package-level functions do. *)

ConcDocs ==
    {Parsed(r) : r \in { SetOk,
                         Node("if", GoodAttrs("if"), <<>>, <<SetOk, TypeofVar>>),
                         Node("while", GoodAttrs("while"), <<>>, <<Bogus, SetOk>>),
                         Nest(Node("else", <<>>, <<>>, <<SetOk>>), 2),
                         Node("script", <<>>, <<>>, <<SetOk, Blank, Break>>) }}
    \cup {Malformed}

\* the frame of compileNode(node), or of the loop of CompileFromString over a
\* script root, before its first step; tmp is the value indent++ or indent--
\* has read and not yet written back
Frame(node, path) ==
    [node |-> node, path |-> path,
     at |-> IF node.tag = "script" /\ path = <<>> THEN "kids" ELSE "enter",
     i |-> 1, acc |-> <<>>, results |-> <<>>, tmp |-> 0]

Top(g) == run[g].stack[Len(run[g].stack)]

IsScript(f) == f.node.tag = "script" /\ f.path = <<>>

\* the frame's handler is one of the built-ins that compile their children
IsBlock(f, handlers) ==
    /\ ~IsScript(f)
    /\ f.node.tag \in BlockTags
    /\ handlers[f.node.tag] = Builtin(f.node.tag)

\* a loop that appends the empty results too
ResumedKeepsEmpty(f, r) ==
    IF IsScript(f)
    THEN [f EXCEPT !.i = f.i + 1, !.results = Append(f.results, r.text)]
    ELSE [f EXCEPT !.i = f.i + 1, !.acc = f.acc \o r.text \o <<"\n">>]

\* the caller's loop takes the result r of the call it made for child i
Resumed(f, r) ==
    IF IsScript(f)
    THEN [f EXCEPT !.i = f.i + 1,
                   !.results = IF r.text # <<>> THEN Append(f.results, r.text) ELSE f.results]
    ELSE [f EXCEPT !.i = f.i + 1,
                   !.acc = IF r.text # <<>> THEN f.acc \o r.text \o <<"\n">> ELSE f.acc]

\* The top frame of call rn returns r.  The root's result is the call's; an
\* error makes every caller up the stack return "" and the error at once.
Returns(rn, r) ==
    LET rest == SubSeq(rn.stack, 1, Len(rn.stack) - 1)
    IN  IF rest = <<>>
        THEN [rn EXCEPT !.phase = "done", !.stack = <<>>,
                        !.res = [text |-> r.text, err |-> r.err]]
        ELSE IF ~r.err.nil
        THEN [rn EXCEPT !.phase = "done", !.stack = <<>>,
                        !.res = [text |-> <<>>, err |-> r.err]]
        ELSE [rn EXCEPT !.stack = SubSeq(rest, 1, Len(rest) - 1)
                                  \o <<Resumed(rest[Len(rest)], r)>>]

\* the top frame of call rn ends with r, or with the panic of getIndent
Ends(rn, r) ==
    IF Panicked(r.text) THEN [rn EXCEPT !.phase = "panic", !.stack = <<>>]
    ELSE Returns(rn, r)

\* the top frame of call rn replaced by f
Moved(rn, f) == [rn EXCEPT !.stack[Len(rn.stack)] = f]

\* goroutine g takes a step while another goroutine is inside a call
Mixed(rn, g) ==
    [rn EXCEPT !.mixed = rn.mixed \/ \E h \in Goroutines \ {g} : run[h].phase = "running"]

\* a panic no one recovers ends the process, and with it every goroutine
Running(g) ==
    /\ \A h \in Goroutines : run[h].phase # "panic"
    /\ run[g].phase = "running"

\* c.CompileFromString(doc) begins on instance i: the document is parsed
Begins(g, i, doc) ==
    /\ \A h \in Goroutines : run[h].phase # "panic"
    /\ run[g].phase = "idle"
    /\ run' = [run EXCEPT ![g] =
                  IF ~doc.ok
                  THEN [Idle EXCEPT !.phase = "done", !.inst = i, !.doc = doc,
                                    !.res = [text |-> <<>>, err |-> Errorf("XML parse error: ")]]
                  ELSE [Idle EXCEPT !.phase = "running", !.inst = i, !.doc = doc,
                                    !.stack = <<Frame(doc.root, <<>>)>>]]
    /\ UNCHANGED <<last, memo, app>>

\* go func() { c := NewCompiler(); c.CompileFromString(doc) }
Go(g, doc) ==
    /\ g \notin DOMAIN comp
    /\ comp' = [j \in DOMAIN comp \cup {g} |-> IF j = g THEN NewCompilerValue ELSE comp[j]]
    /\ Begins(g, g, doc)

\* go func() { CompileString(doc) }
GoShared(g, doc) ==
    /\ UNCHANGED comp
    /\ Begins(g, "default", doc)

\* compileNode for a text node, an unknown tag, a handler that compiles no
\* children, or a block handler up to its early return or its header line
Enter(g) ==
    /\ Running(g)
    /\ Top(g).at = "enter"
    /\ LET f == Top(g)
           c == comp[run[g].inst]
           h == Header(f.node.tag, f.node, c.indent)
       IN  run' = [run EXCEPT ![g] =
                      IF ~IsBlock(f, c.handlers)
                      THEN Mixed(Ends(run[g], compileNode(f.node, f.path, c.handlers,
                                                          c.indent)), g)
                      ELSE IF ~h.err.nil \/ Panicked(h.text)
                      THEN Mixed(Ends(run[g], h), g)
                      ELSE Mixed(Moved(run[g], [f EXCEPT !.at = "inc", !.acc = h.text]), g)]
    /\ UNCHANGED <<comp, last, memo, app>>

\* compiler.indent++: the read
Load(g) ==
    /\ Running(g)
    /\ Top(g).at = "inc"
    /\ run' = [run EXCEPT ![g] =
                  Mixed(Moved(run[g], [Top(g) EXCEPT !.at = "incw",
                                                     !.tmp = comp[run[g].inst].indent]), g)]
    /\ UNCHANGED <<comp, last, memo, app>>

\* compiler.indent++ and compiler.indent--: the write
Store(g) ==
    /\ Running(g)
    /\ Top(g).at \in {"incw", "decw"}
    /\ comp' = SetIndent(comp, run[g].inst,
                         IF Top(g).at = "incw" THEN Top(g).tmp + 1 ELSE Top(g).tmp - 1)
    /\ run' = [run EXCEPT ![g] =
                  Mixed(Moved(run[g], [Top(g) EXCEPT
                                          !.at = IF Top(g).at = "incw" THEN "kids" ELSE "term"]),
                        g)]
    /\ UNCHANGED <<last, memo, app>>

\* the loop calls compileNode for the next child
Child(g) ==
    /\ Running(g)
    /\ Top(g).at = "kids"
    /\ Top(g).i <= Len(Top(g).node.Nodes)
    /\ run' = [run EXCEPT ![g] =
                  Mixed([run[g] EXCEPT !.stack =
                            Append(run[g].stack,
                                   Frame(Top(g).node.Nodes[Top(g).i],
                                         Top(g).path \o <<Top(g).i>>))], g)]
    /\ UNCHANGED <<comp, last, memo, app>>

\* after the loop: the join for the script root, the read of
\* compiler.indent-- for a block handler
Leave(g) ==
    /\ Running(g)
    /\ Top(g).at = "kids"
    /\ Top(g).i > Len(Top(g).node.Nodes)
    /\ run' = [run EXCEPT ![g] =
                  IF IsScript(Top(g))
                  THEN Mixed(Returns(run[g], Ret(Join(Top(g).results, <<"\n">>), NoErr,
                                                 comp[run[g].inst].indent, <<>>)), g)
                  ELSE Mixed(Moved(run[g], [Top(g) EXCEPT !.at = "decw",
                                                          !.tmp = comp[run[g].inst].indent]), g)]
    /\ UNCHANGED <<comp, last, memo, app>>

\* result += compiler.getIndent() + terminator, and the handler returns
Term(g) ==
    /\ Running(g)
    /\ Top(g).at = "term"
    /\ run' = [run EXCEPT ![g] =
                  Mixed(Ends(run[g],
                             Terminate(Ret(Top(g).acc, NoErr, comp[run[g].inst].indent, <<>>),
                                       Terminator(Top(g).node.tag, Top(g).node))), g)]
    /\ UNCHANGED <<comp, last, memo, app>>

NextConc ==
    \/ \E g \in Goroutines, doc \in ConcDocs : Go(g, doc)
    \/ \E g \in Goroutines : Enter(g)
    \/ \E g \in Goroutines : Load(g)
    \/ \E g \in Goroutines : Store(g)
    \/ \E g \in Goroutines : Child(g)
    \/ \E g \in Goroutines : Leave(g)
    \/ \E g \in Goroutines : Term(g)

SpecConc == Init /\ [][NextConc]_vars

\* the documents of the calls that share the default instance
SharedDocs ==
    {Parsed(r) : r \in { Node("if", GoodAttrs("if"), <<>>, <<SetOk, Blank>>),
                         Node("while", GoodAttrs("while"), <<>>, <<Bogus, SetOk>>),
                         Node("for", GoodAttrs("for"), <<>>,
                              <<Node("else", <<>>, <<>>, <<SetOk>>), TableInline>>) }}
    \cup {Malformed}

NextShared ==
    \/ \E g \in Goroutines, doc \in SharedDocs : GoShared(g, doc)
    \/ \E g \in Goroutines : Enter(g)
    \/ \E g \in Goroutines : Load(g)
    \/ \E g \in Goroutines : Store(g)
    \/ \E g \in Goroutines : Child(g)
    \/ \E g \in Goroutines : Leave(g)
    \/ \E g \in Goroutines : Term(g)

SpecShared == Init /\ [][NextShared]_vars

-----------------------------------------------------------------------------
(* The built-ins one by one: each element compiled as the root, as a child of
   a script root, as a child of a block and two blocks deep *)

\* the content of print, warn, error elements
PrintContents ==
    { <<>>, <<" ">>, <<"x">>, <<" ", "x", " ">>, <<"\"", "h", "\"">>,
      <<"{", "{", "x", "}", "}">>,
      <<"a", "{", "{", " ", "x", " ", "}", "}", "b", "{", "{", "y", "}", "}">>,
      <<"{", "{", "x">>, <<"{", "{", "}", "}">>, <<"x", "}", "}">> }

PrintElements ==
    {Node(t, <<>>, c, <<>>) : t \in {"print", "warn", "error"}, c \in PrintContents}
    \cup {Node("error", <<Attr("level", <<"2">>)>>, c, <<>>) : c \in PrintContents}

ArgBlank == Node("arg", <<>>, <<" ">>, <<>>)
ArgB == Node("arg", <<Attr("key", <<"k">>)>>, <<" ", "b", "\n">>, <<SetOk>>)

CallElements ==
    {Node("call", a, c, k) :
        a \in {<<Attr("name", <<"f">>)>>, <<Attr("name", <<"o", ".", "m">>)>>, <<>>},
        c \in {<<>>, <<" ">>, <<" ", "a", " ">>},
        k \in { <<>>, <<ArgA>>, <<ArgBlank, ArgB>>, <<ArgB, ItemA, ArgA>>,
                <<ArgA, ArgBlank, ArgB>>, <<SetOk>> }}

TypeofElements ==
    {Node("typeof", a, c, <<>>) :
        a \in { <<>>, <<Attr("var", <<>>)>>, <<Attr("var", <<"t">>)>>,
                <<Attr("var", <<"t">>), Attr("local", <<"t", "r", "u", "e">>)>>,
                <<Attr("local", <<"1">>)>>, <<Attr("var", <<"1", "t">>)>> },
        c \in {<<>>, <<" ">>, <<"x">>, <<" ", "x", "\n">>}}

RawElements ==
    {Node("raw", <<>>, c, <<>>) :
        c \in { <<>>, <<" ", "\n">>, <<"a">>, <<" ", "a", " ">>, <<"a", "\n", "b">>,
                <<"a", "\n", " ", " ", "b">>, <<"a", "\n", " ", "\n", "b">>,
                <<"a", "\n", "\n", "b">>, <<"[", "[", "\n", "\t", "\n", "]", "]">> }}

SubElements ==
    {Node(t, a, c, k) :
        t \in {"arg", "entry", "item"},
        a \in {<<>>, <<Attr("key", <<"k">>)>>},
        c \in {<<>>, <<"a">>},
        k \in {<<>>, <<SetOk>>, <<Bogus>>}}

ForElements ==
    {Node("for", a, <<>>, k) :
        a \in { <<Attr("var", <<"k">>), Attr("in", <<"p">>)>>,
                <<Attr("var", <<"k", ",", " ", "v">>), Attr("in", <<"p">>)>>,
                <<Attr("var", <<"i", ",", " ", "n", "u", "m">>), Attr("in", <<"p">>)>>,
                <<Attr("var", <<"k">>), Attr("in", <<"p">>), Attr("from", <<"1">>)>>,
                <<Attr("var", <<"k">>), Attr("in", <<"p">>), Attr("from", <<"1">>),
                  Attr("to", <<"9">>), Attr("step", <<"2">>)>> },
        k \in {<<>>, <<SetOk>>, <<SetOk, Break>>}}

\* if with elseif and else children, and elseif and else without an if
ConditionalElements ==
    {Node("if", GoodAttrs("if"), <<>>,
          <<SetOk, Node("elseif", GoodAttrs("elseif"), <<>>, a), Node("else", <<>>, <<>>, b)>>) :
        a, b \in {<<>>, <<SetOk>>, <<Break, SetOk>>}}
    \cup {Node(t, GoodAttrs(t), <<>>, b) :
             t \in {"if", "elseif", "else"},
             b \in {<<>>, <<SetOk>>, <<Node("if", GoodAttrs("if"), <<>>, <<Break>>), SetOk>>}}

EntryNoKey == Node("entry", <<>>, <<"1">>, <<>>)
EntryNoValue == Node("entry", <<Attr("key", <<"k">>)>>, <<" ">>, <<>>)
EntryQuoted == Node("entry", <<Attr("key", <<"a", " ", "b">>)>>, <<" ", "2">>, <<Bogus>>)
ItemBlank == Node("item", <<>>, <<" ", "\n">>, <<>>)

\* call, table and array elements with children they do not read
ContainerElements ==
    {Node("call", <<Attr("name", <<"f">>)>>, <<>>, k) :
        k \in {<<Bogus>>, <<SetNoVar, ArgA, Text>>}}
    \cup {Node("table", a, <<>>, k) :
             a \in {<<>>, <<Attr("var", <<"t">>)>>, <<Attr("var", <<"1", "t">>)>>},
             k \in { <<>>, <<EntryA>>, <<Bogus>>, <<EntryNoKey, EntryNoValue>>,
                     <<EntryA, Bogus, EntryNoKey, EntryQuoted, SetNoVar, EntryNoValue, ItemA>> }}
    \cup {Node("array", a, c, k) :
             a \in {<<>>, <<Attr("var", <<"a">>)>>},
             c \in {<<>>, <<"0">>},
             k \in {<<ItemA>>, <<Bogus>>, <<ItemA, Bogus, SetNoVar, ItemBlank, ItemA, EntryA>>}}

\* for elements with every combination of the range attributes
ForFormElements ==
    {Node("for", v \o f \o t \o i \o st, <<>>, <<SetOk>>) :
        v \in {<<>>, <<Attr("var", <<"i">>)>>},
        f \in {<<>>, <<Attr("from", <<>>)>>, <<Attr("from", <<"1">>)>>},
        t \in {<<>>, <<Attr("to", <<"9">>)>>},
        i \in {<<>>, <<Attr("in", <<>>)>>, <<Attr("in", <<"p">>)>>},
        st \in { <<>>, <<Attr("step", <<>>)>>, <<Attr("step", <<"1">>)>>,
                 <<Attr("step", <<"2">>)>>, <<Attr("step", <<" ", "1">>)>> }}
    \cup {Node("for", <<Attr("var", <<"i">>), Attr("from", <<"1">>), Attr("to", <<"9">>)>>,
                <<>>, <<SetOk, Bogus>>)}

Elements ==
    ForFormElements \cup PrintElements \cup CallElements \cup TypeofElements \cup RawElements
    \cup SubElements \cup ForElements \cup ConditionalElements \cup ContainerElements

\* the places an element is compiled at
Places(e) ==
    { e,
      Node("script", <<>>, <<>>, <<e, SetOk>>),
      Node("if", GoodAttrs("if"), <<>>, <<SetOk, e>>),
      Node("while", GoodAttrs("while"), <<>>, <<Node("else", <<>>, <<>>, <<e>>)>>) }

ElementDocs == {Parsed(r) : r \in UNION {Places(e) : e \in Elements}}

\* one compile call, the first made on the instance
NextHandlers ==
    /\ last.op = "none"
    /\ \E doc \in ElementDocs : Compile("default", doc)

SpecHandlers == Init /\ [][NextHandlers]_vars

-----------------------------------------------------------------------------
(* Interpolate applied to a text *)

MaxText == 6    \* longest text of the exhaustive part

\* every text of braces, a name character and a space up to MaxText, and
\* longer ones with two placeholders
Texts ==
    SeqsUpTo({"{", "}", "x", " "}, MaxText)
    \cup { <<"a", "{", "{", " ", "x", " ", "}", "}", "b", "{", "{", "y", "}", "}", "c">>,
           <<"{", "{", "x", "}", "}", "{", "{", "y", "}", "}">>,
           <<"{", "{", "{", "x", "}", "}", "}", " ", "{", "{", "y", "}", "}">>,
           <<"{", "{", "x", "}", " ", "{", "{", " ", "y", "}", "}", "}">> }

InitInterpolate ==
    /\ comp = [i \in {"default"} |-> NewCompilerValue]
    /\ last = NoCall
    /\ memo = NoMemo
    /\ run = [g \in Goroutines |-> Idle]
    /\ app \in {[fn |-> "text", arg |-> t, out |-> <<>>] : t \in Texts}

\* Interpolate(text)
ApplyInterpolate ==
    /\ app.fn = "text"
    /\ app' = [fn |-> "Interpolate", arg |-> app.arg, out |-> Interpolate(app.arg)]
    /\ UNCHANGED <<comp, last, memo, run>>

SpecInterpolate == InitInterpolate /\ [][ApplyInterpolate]_vars

-----------------------------------------------------------------------------
(* Reading a compile call back from its record *)

\* the width of the literal of getIndent
IndentWidth == 4

IsPrefix(p, q) == Len(p) <= Len(q) /\ SubSeq(q, 1, Len(p)) = p

\* p comes before q in document order (a node before its descendants)
DocBefore(p, q) ==
    \/ p # q /\ IsPrefix(p, q)
    \/ \E k \in 1..Len(p) :
          /\ k <= Len(q)
          /\ SubSeq(p, 1, k - 1) = SubSeq(q, 1, k - 1)
          /\ p[k] < q[k]

RECURSIVE NodeAt(_, _)
NodeAt(root, p) == IF p = <<>> THEN root ELSE NodeAt(root.Nodes[Head(p)], Tail(p))

\* the number of block-introducing proper ancestors of the node at p
BlockDepth(root, p) ==
    Cardinality({k \in 0..(Len(p) - 1) : NodeAt(root, SubSeq(p, 1, k)).tag \in BlockTags})

RECURSIVE LeadingSpaces(_)
LeadingSpaces(s) == IF s # <<>> /\ Head(s) = " " THEN 1 + LeadingSpaces(Tail(s)) ELSE 0

Compiled == last.op = "compile" /\ last.doc.ok
Log == last.res.log
RootNode == last.doc.root
\* the registry of the instance the latest call was made on
Handlers == comp[last.inst].handlers

\* no compileNode call was made for a child of the node at p
NoChildCompiled(p) == \A j \in 1..Len(Log) : ~(Log[j].path # p /\ IsPrefix(p, Log[j].path))

-----------------------------------------------------------------------------
(* C1 *)

\* C1: a compile call makes its compileNode calls in document order, depth
\* first and left to right; once a compileNode call has returned an error the
\* only calls recorded after it are those its own handler had made for its
\* descendants (so no later node is compiled), and the compile call returns
\* exactly that error.
C1_FailFastDocumentOrder ==
    Compiled =>
        /\ \A k \in 1..(Len(Log) - 1) : DocBefore(Log[k].path, Log[k + 1].path)
        /\ \A k \in 1..Len(Log) :
              ~Log[k].err.nil =>
                  /\ last.res.err = Log[k].err
                  /\ \A j \in (k + 1)..Len(Log) : IsPrefix(Log[k].path, Log[j].path)
        /\ ~last.res.err.nil => Log # <<>> /\ Log[Len(Log)].err = last.res.err

\* an unknown tag at depth 2 fails the call; the text node after it and the
\* invalid set after the enclosing if are in the tree and were not compiled
C1_Witness ==
    /\ Compiled
    /\ RootNode.tag = "script"
    /\ Len(RootNode.Nodes) = 2
    /\ RootNode.Nodes[1].tag = "if"
    /\ Len(RootNode.Nodes[1].Nodes) = 3
    /\ Len(Log) = 3
    /\ Log[3].path = <<1, 2>>
    /\ last.res.err = ErrorfS("unknown tag: ", <<"bogus">>)

-----------------------------------------------------------------------------
(* C2 *)

\* C2: every compile call that returns an error returns "" as its text.
C2_NoPartialOutput ==
    last.op = "compile" /\ ~last.res.err.nil => last.res.text = <<>>

-----------------------------------------------------------------------------
(* C3 *)

\* C3: in a successful compile, the text every element's compileNode call
\* returned begins with exactly IndentWidth * d spaces, d being the number of
\* block-introducing ancestors of the element.
C3_IndentationInvariant ==
    Compiled /\ last.res.err.nil =>
        \A k \in 1..Len(Log) :
            Log[k].tag # "" /\ Log[k].text # <<>> =>
                LeadingSpaces(Log[k].text) = IndentWidth * BlockDepth(RootNode, Log[k].path)

-----------------------------------------------------------------------------
(* C4 *)

\* C4: two compile calls of the same document on the same instance, made
\* with the same registry, return the same text and the same error, whatever
\* calls were made before or between them.
C4_Determinism ==
    /\ last.op = "compile"
    /\ memo.call.op = "compile"
    /\ memo.call.inst = last.inst
    /\ memo.call.doc = last.doc
    /\ memo.handlers = comp[last.inst].handlers
    => /\ last.res.text = memo.call.res.text
       /\ last.res.err = memo.call.res.err

-----------------------------------------------------------------------------
(* C5 *)

\* C5: a Register call stores the handler under its tag, replacing what was
\* there (built-in or custom) and leaving every other tag's handler as it
\* was; a compile call leaves the registry as it was and returns, for a
\* single-statement root, what the handler registered for the root's tag at
\* that time returns, or the unknown-tag error when none is registered.
C5_RegistryLastWriteWins ==
    [][/\ last'.op = "register" =>
            comp'[last'.inst].handlers =
                [comp[last'.inst].handlers EXCEPT ![last'.tag] = last'.handler]
       /\ last'.op = "compile" =>
            /\ comp'[last'.inst].handlers = comp[last'.inst].handlers
            /\ last'.doc.ok /\ last'.doc.root.tag \notin {"", "script"} =>
                  LET root == last'.doc.root
                      h == comp[last'.inst].handlers[root.tag]
                      r == CallHandler(h, root, <<>>, comp[last'.inst].handlers,
                                       comp[last'.inst].indent)
                  IN  IF h = None
                      THEN last'.res.err = ErrorfS("unknown tag: ", <<root.tag>>)
                      ELSE last'.res.text = r.text /\ last'.res.err = r.err]_vars

\* a handler registered over another custom handler, a built-in being shadowed
C5_WitnessOverwrite ==
    /\ last.op = "register"
    /\ last.replaced \in CustomHandlers
    /\ last.replaced # last.handler
    /\ Handlers["set"] = Custom("partial")

-----------------------------------------------------------------------------
(* C6 *)

\* C6: NewCompiler returns an instance holding exactly the built-in handlers
\* and indent 0, whatever was done to other instances before; and a call on
\* one instance (NewCompiler, Register, compile) leaves the registry and the
\* indent of every other instance, the default one included, unchanged.
C6_InstanceIsolation ==
    [][/\ last'.op = "new" =>
            /\ comp'[last'.inst].indent = 0
            /\ \A t \in TagNames :
                  comp'[last'.inst].handlers[t] = IF t \in BuiltinTags THEN Builtin(t) ELSE None
       /\ \A j \in DOMAIN comp : j # last'.inst => comp'[j] = comp[j]]_vars

\* both instances exist, each with a registry and an indent of its own, and
\* the latest call was a compile on the private one
C6_WitnessTwoInstances ==
    /\ DOMAIN comp = Instances
    /\ last.op = "compile"
    /\ last.inst = "private"
    /\ comp["private"].handlers # comp["default"].handlers
    /\ comp["private"].handlers # registerBuiltins
    /\ comp["default"].handlers # registerBuiltins
    /\ comp["private"].indent # comp["default"].indent

-----------------------------------------------------------------------------
(* C7 *)

\* C7: under every interleaving of the steps of compile calls made at the
\* same time, each on an instance of its own, a call that has returned has
\* returned the text and the error the same call returns when it runs alone
\* on a new instance, and has left its instance the indent that call leaves.
C7_ConcurrentInstances ==
    \A g \in Goroutines :
        run[g].phase = "done" =>
            LET alone == CompileFromString(run[g].doc, NewCompilerValue.handlers,
                                           NewCompilerValue.indent)
            IN  /\ run[g].res.text = alone.text
                /\ run[g].res.err = alone.err
                /\ comp[run[g].inst].indent = alone.indent

\* two calls that compiled different nested blocks have both returned, each
\* having taken steps while the other was inside its walk
C7_WitnessInterleaved ==
    /\ \A g \in Goroutines : run[g].phase = "done" /\ run[g].mixed /\ run[g].res.err.nil
    /\ run["g1"].doc.root.tag = "for"
    /\ run["g2"].doc.root.tag = "if"
    /\ \E k \in 1..Len(run["g1"].res.text) : run["g1"].res.text[k] = "else"

-----------------------------------------------------------------------------
(* C8 *)

\* C8: a compileNode call for an element whose tag has no registered handler,
\* at the root or at any depth, returns the error "unknown tag: " followed by
\* exactly that tag, and the compile call fails with that error.
C8_UnknownTag ==
    Compiled =>
        \A k \in 1..Len(Log) :
            Log[k].tag # "" /\ Handlers[Log[k].tag] = None =>
                /\ Log[k].err = ErrorfS("unknown tag: ", <<Log[k].tag>>)
                /\ last.res.err = Log[k].err
                /\ last.res.text = <<>>

\* an element without a handler compiled two levels below the root
C8_WitnessNested ==
    /\ Compiled
    /\ \E k \in 1..Len(Log) :
          /\ Len(Log[k].path) >= 2
          /\ Handlers[Log[k].tag] = None
          /\ NodeAt(RootNode, Log[k].path).tag = Log[k].tag

-----------------------------------------------------------------------------
(* C9 *)

\* the non-empty texts of the compileNode calls made for the root's children
RECURSIVE ChildTexts(_)
ChildTexts(log) ==
    IF log = <<>> THEN <<>>
    ELSE (IF Len(Head(log).path) = 1 /\ Head(log).text # <<>> THEN <<Head(log).text>> ELSE <<>>)
         \o ChildTexts(Tail(log))

\* C9: for a script root every child is compiled, in document order, and a
\* successful call returns the non-empty child results joined by single
\* newlines; for any other root the call returns exactly what compileNode
\* returned for the root.
C9_RootHandling ==
    Compiled =>
        IF RootNode.tag = "script"
        THEN last.res.err.nil =>
                /\ \A i \in 1..Len(RootNode.Nodes) :
                      \E k \in 1..Len(Log) : Log[k].path = <<i>>
                /\ \A k \in 1..Len(Log) : Log[k].path # <<>>
                /\ last.res.text = Join(ChildTexts(Log), <<"\n">>)
        ELSE /\ Log # <<>>
             /\ Log[1].path = <<>>
             /\ last.res.text = Log[1].text
             /\ last.res.err = Log[1].err

\* a script whose children gave two texts, and two empty results between them
C9_WitnessScript ==
    /\ Compiled
    /\ RootNode.tag = "script"
    /\ Len(RootNode.Nodes) = 4
    /\ last.res.err.nil
    /\ Len(ChildTexts(Log)) = 2
    /\ \E i \in 1..Len(last.res.text) : last.res.text[i] = "\n"

-----------------------------------------------------------------------------
(* C10 *)

RequiredAttr ==
    [t \in {"set", "if", "elseif", "for", "while", "repeat", "function", "call", "assert"} |->
        CASE t \in {"set", "for"} -> "var"
          [] t \in {"function", "call"} -> "name"
          [] t = "repeat" -> "until"
          [] OTHER -> "test"]

\* what the claim says of the compileNode calls that reached the built-in of
\* a tag with a required attribute: the tags of `named` must hold identifiers
RequiredAttributes(named) ==
    Compiled =>
        \A k \in 1..Len(Log) :
            LET t == Log[k].tag
                n == NodeAt(RootNode, Log[k].path)
            IN  t \in DOMAIN RequiredAttr /\ Handlers[t] = Builtin(t) =>
                   LET v == GetAttr(n, RequiredAttr[t])
                   IN  /\ v = <<>> =>
                            /\ Log[k].err = Errorf(t \o " command requires '"
                                                   \o RequiredAttr[t] \o "' attribute")
                            /\ NoChildCompiled(Log[k].path)
                       /\ v # <<>> /\ t \in named /\ ~IsValidIdentifier(v) =>
                            /\ Log[k].err = ErrorfS(IF t = "function"
                                                     THEN "invalid function name: "
                                                     ELSE "invalid variable name: ", v)
                            /\ NoChildCompiled(Log[k].path)

-----------------------------------------------------------------------------
(* C11 *)

\* the strings between the occurrences of the character c in s
RECURSIVE SplitAt(_, _)
SplitAt(s, c) ==
    IF \A i \in 1..Len(s) : s[i] # c THEN <<s>>
    ELSE LET k == CHOOSE i \in 1..Len(s) : s[i] = c /\ \A j \in 1..(i - 1) : s[j] # c
         IN  <<SubSeq(s, 1, k - 1)>> \o SplitAt(SubSeq(s, k + 1, Len(s)), c)

\* one loop variable, or several separated by commas
IsNameList(v) ==
    LET parts == SplitAt(v, ",")
    IN  \A i \in 1..Len(parts) : IsValidIdentifier(TrimSpace(parts[i]))

\* the compileNode calls made for the children of the node at p
IsChildOf(q, p) == Len(q) = Len(p) + 1 /\ IsPrefix(p, q)

\* what a block handler's loop over the children of the node at p wrote: the
\* non-empty results of the calls made for them, each followed by a newline
RECURSIVE BodyText(_, _)
BodyText(log, p) ==
    IF log = <<>> THEN <<>>
    ELSE (IF IsChildOf(Head(log).path, p) /\ Head(log).text # <<>>
          THEN Head(log).text \o <<"\n">> ELSE <<>>)
         \o BodyText(Tail(log), p)

\* a compileNode call made below the node at p returned an error
FailedBelow(p) ==
    \E j \in 1..Len(Log) : Log[j].path # p /\ IsPrefix(p, Log[j].path) /\ ~Log[j].err.nil

\* C11: a for element with an in expression, no from and no to, and a var
\* that is one identifier or several separated by commas compiles, unless a
\* child fails, to "for <var> in <in> do", its children compiled one level
\* deeper, and "end" at the indent of the header.
C11_IteratorLoop ==
    Compiled =>
        \A k \in 1..Len(Log) :
            LET n == NodeAt(RootNode, Log[k].path)
            IN  /\ Log[k].tag = "for"
                /\ Handlers["for"] = Builtin("for")
                /\ GetAttr(n, "in") # <<>>
                /\ GetAttr(n, "from") = <<>>
                /\ GetAttr(n, "to") = <<>>
                /\ IsNameList(GetAttr(n, "var"))
                /\ ~FailedBelow(Log[k].path)
                => /\ Log[k].err.nil
                   /\ Log[k].text =
                         getIndent(Log[k].at) \o <<"for", " ">> \o GetAttr(n, "var")
                         \o <<" ", "in", " ">> \o GetAttr(n, "in") \o <<" ", "do", "\n">>
                         \o BodyText(Log, Log[k].path)
                         \o getIndent(Log[k].at) \o <<"end">>
                   /\ \A j \in 1..Len(Log) :
                         IsChildOf(Log[j].path, Log[k].path) => Log[j].at = Log[k].at + 1

-----------------------------------------------------------------------------
(* C12 *)

\* s[i..j] is a placeholder: "{{", one or more characters other than "}", "}}"
PlaceholderAt(s, i, j) ==
    /\ 1 <= i /\ i + 4 <= j /\ j <= Len(s)
    /\ s[i] = "{" /\ s[i + 1] = "{" /\ s[j - 1] = "}" /\ s[j] = "}"
    /\ \A k \in (i + 2)..(j - 2) : s[k] # "}"

HasPlaceholder(s) == \E i, j \in 1..Len(s) : PlaceholderAt(s, i, j)

\* s holds the two characters that open a placeholder
HasOpener(s) == \E i \in 1..(Len(s) - 1) : s[i] = "{" /\ s[i + 1] = "{"

\* What the claim says of the compileNode calls that reached the built-in of
\* print, warn or error, Quoted(content) deciding which content is written
\* as a quoted literal.
OutputFamily(Quoted(_)) ==
    Compiled =>
        \A k \in 1..Len(Log) :
            LET t == Log[k].tag
                n == NodeAt(RootNode, Log[k].path)
                content == TrimSpace(n.Content)
                level == IF t = "error"
                         THEN <<",", " ">> \o GetAttrWithDefault(n, "level", <<"1">>)
                         ELSE <<>>
            IN  t \in {"print", "warn", "error"} /\ Handlers[t] = Builtin(t) =>
                   IF content = <<>>
                   THEN /\ Log[k].err = Errorf(t \o " command requires content")
                        /\ Log[k].text = <<>>
                   ELSE /\ Log[k].err.nil
                        /\ Log[k].text =
                              getIndent(Log[k].at) \o <<t, "(">>
                              \o (IF Quoted(content)
                                  THEN <<"\"">> \o Interpolate(content) \o <<"\"">>
                                  ELSE content)
                              \o level \o <<")">>

\* C12 as stated: content is quoted and expanded when it holds a placeholder
C12_Original == OutputFamily(HasPlaceholder)

\* C12 as amended: print, warn and error fail with "<tag> command requires
\* content" on empty content; content without the characters "{{" is written
\* raw as the argument; content with "{{" is written as one double-quoted
\* literal with every placeholder expanded, also when it holds no complete
\* placeholder; error writes its level (1 unless given) as a second argument.
C12_OutputFamily == OutputFamily(HasOpener)

\* a print inside a block whose content opens a placeholder and never closes
\* it: written in quotes, nothing expanded
C12_WitnessUnclosed ==
    /\ Compiled
    /\ last.res.err.nil
    /\ \E k \in 1..Len(Log) :
          /\ Log[k].tag = "print"
          /\ Log[k].at = 1
          /\ NodeAt(RootNode, Log[k].path).Content = <<"{", "{", "x">>
          /\ Log[k].text = getIndent(1) \o <<"print", "(", "\"", "{", "{", "x", "\"", ")">>

-----------------------------------------------------------------------------
(* C13 *)

\* the splice written for the expression e
Splice(e) == <<"\"", " ", "..", " ", "tostring", "(">> \o e \o <<")", " ", "..", " ", "\"">>

\* C13: Interpolate returns a text without a placeholder as given; and for
\* the leftmost placeholder {{e}} of a text it returns the text before it
\* unchanged, the splice of e trimmed, and the expansion of the text after it
\* (so every placeholder is replaced, and the text outside them kept in order).
C13_Interpolation ==
    app.fn = "Interpolate" =>
        LET s == app.arg
        IN  /\ ~HasPlaceholder(s) => app.out = s
            /\ \A i, j \in 1..Len(s) :
                  /\ PlaceholderAt(s, i, j)
                  /\ \A a \in 1..(i - 1), b \in 1..Len(s) : ~PlaceholderAt(s, a, b)
                  => app.out = SubSeq(s, 1, i - 1)
                               \o Splice(TrimSpace(SubSeq(s, i + 2, j - 2)))
                               \o Interpolate(SubSeq(s, j + 1, Len(s)))

\* a text with two placeholders, spaces around the first expression and text
\* before, between and after them
C13_WitnessTwoPlaceholders ==
    /\ app.fn = "Interpolate"
    /\ app.arg = <<"a", "{", "{", " ", "x", " ", "}", "}", "b", "{", "{", "y", "}", "}", "c">>
    /\ app.out = <<"a">> \o Splice(<<"x">>) \o <<"b">> \o Splice(<<"y">>) \o <<"c">>

-----------------------------------------------------------------------------
(* C14 *)

\* the arguments of a call element: the inline content, then the arg
\* children in document order, each trimmed, the empty ones left out
Arguments(n) ==
    LET given == SelectSeq(n.Nodes, LAMBDA c : c.tag = "arg" /\ TrimSpace(c.Content) # <<>>)
    IN  (IF TrimSpace(n.Content) # <<>> THEN <<TrimSpace(n.Content)>> ELSE <<>>)
        \o [i \in 1..Len(given) |-> TrimSpace(given[i].Content)]

\* C14: a call element with a name compiles to "name(a1, a2, ...)" at the
\* current indent, the arguments being the trimmed inline content (if not
\* empty) and then the trimmed content of each arg child in document order,
\* empty ones dropped, joined by ", ".
C14_CallArguments ==
    Compiled =>
        \A k \in 1..Len(Log) :
            LET n == NodeAt(RootNode, Log[k].path)
            IN  /\ Log[k].tag = "call"
                /\ Handlers["call"] = Builtin("call")
                /\ GetAttr(n, "name") # <<>>
                => /\ Log[k].err.nil
                   /\ Log[k].text =
                         getIndent(Log[k].at) \o GetAttr(n, "name") \o <<"(">>
                         \o Join(Arguments(n), <<",", " ">>) \o <<")">>

\* a call one block deep with an inline argument, two arg children and a
\* child that is no arg
C14_WitnessMixed ==
    /\ Compiled
    /\ \E k \in 1..Len(Log) :
          /\ Log[k].tag = "call"
          /\ Log[k].at = 1
          /\ Len(NodeAt(RootNode, Log[k].path).Nodes) = 3
          /\ Log[k].text = getIndent(1) \o <<"f", "(", "a", ",", " ", "b", ",", " ", "a", ")">>

-----------------------------------------------------------------------------
(* C15 *)

\* the header line of a conditional
ConditionalHeader(t, n) ==
    CASE t = "if" -> <<"if", " ">> \o GetAttr(n, "test") \o <<" ", "then">>
      [] t = "elseif" -> <<"elseif", " ">> \o GetAttr(n, "test") \o <<" ", "then">>
      [] OTHER -> <<"else">>

\* C15: an if, elseif or else element (with its test, and unless a child
\* fails) compiles without error to its header line, then its children
\* compiled one level deeper; an if ends with exactly one line "end" at the
\* indent of its header, an elseif or else writes nothing after its body,
\* inside an if or anywhere else.
C15_ConditionalTerminators ==
    Compiled =>
        \A k \in 1..Len(Log) :
            LET t == Log[k].tag
                n == NodeAt(RootNode, Log[k].path)
            IN  /\ t \in {"if", "elseif", "else"}
                /\ Handlers[t] = Builtin(t)
                /\ t # "else" => GetAttr(n, "test") # <<>>
                /\ ~FailedBelow(Log[k].path)
                => /\ Log[k].err.nil
                   /\ Log[k].text =
                         getIndent(Log[k].at) \o ConditionalHeader(t, n) \o <<"\n">>
                         \o BodyText(Log, Log[k].path)
                         \o (IF t = "if" THEN getIndent(Log[k].at) \o <<"end">> ELSE <<>>)
                   /\ \A j \in 1..Len(Log) :
                         IsChildOf(Log[j].path, Log[k].path) => Log[j].at = Log[k].at + 1

\* an if one block deep with an elseif and an else among its children, each
\* with a body; and the call compiled
C15_WitnessIfElseifElse ==
    /\ Compiled
    /\ last.res.err.nil
    /\ \E k \in 1..Len(Log) :
          /\ Log[k].tag = "if"
          /\ Log[k].at = 1
          /\ \E a, b \in 1..Len(Log) :
                /\ IsChildOf(Log[a].path, Log[k].path) /\ Log[a].tag = "elseif"
                /\ IsChildOf(Log[b].path, Log[k].path) /\ Log[b].tag = "else"
                /\ BodyText(Log, Log[a].path) # <<>>
                /\ BodyText(Log, Log[b].path) # <<>>
                /\ Log[b].text[Len(Log[b].text)] = "\n"

-----------------------------------------------------------------------------
(* C16 *)

\* the error the claim gives a typeof element with the var v and the
\* trimmed content c, NoErr when it gives none; strict adds the two
\* failures the claim as amended lists
TypeofError(v, c, strict) ==
    IF v = <<>> /\ c = <<>>
    THEN Errorf("typeof command requires either 'var' attribute or content")
    ELSE IF strict /\ v # <<>> /\ ~IsValidIdentifier(v)
    THEN ErrorfS("invalid variable name: ", v)
    ELSE IF strict /\ v # <<>> /\ c = <<>>
    THEN Errorf("typeof command with 'var' requires content")
    ELSE NoErr

\* What the claim says of the compileNode calls that reached the built-in of
\* typeof: the error of TypeofError, or else the assignment form at the
\* current indent when var is given and the bare form, whatever spaces come
\* before it, when it is not.
TypeQuery(strict) ==
    Compiled =>
        \A k \in 1..Len(Log) :
            LET n == NodeAt(RootNode, Log[k].path)
                v == GetAttr(n, "var")
                c == TrimSpace(n.Content)
            IN  Log[k].tag = "typeof" /\ Handlers["typeof"] = Builtin("typeof") =>
                   /\ Log[k].err = TypeofError(v, c, strict)
                   /\ ~TypeofError(v, c, strict).nil => Log[k].text = <<>>
                   /\ TypeofError(v, c, strict).nil /\ v # <<>> =>
                         Log[k].text =
                            getIndent(Log[k].at)
                            \o (IF GetBoolAttr(n, "local") THEN <<"local", " ">> ELSE <<>>)
                            \o v \o <<" ", "=", " ", "typeof", "(">> \o c \o <<")">>
                   /\ TypeofError(v, c, strict).nil /\ v = <<>> =>
                         TrimLeft(Log[k].text) = <<"typeof", "(">> \o c \o <<")">>

\* C16 as stated: typeof fails exactly when var and content are both missing
C16_Original == TypeQuery(FALSE)

\* C16 as amended: typeof fails when var and content are both missing, when
\* var is given and is not a valid identifier ("invalid variable name:
\* <var>"), and when var is given without content ("typeof command with 'var'
\* requires content"); otherwise it emits "[local ]var = typeof(content)"
\* when var is given and "typeof(content)" when it is not.
C16_TypeQuery == TypeQuery(TRUE)

\* a typeof with a valid var and no content, one block deep, fails the call
C16_WitnessVarWithoutContent ==
    /\ Compiled
    /\ last.res.err = Errorf("typeof command with 'var' requires content")
    /\ \E k \in 1..Len(Log) :
          /\ Log[k].tag = "typeof"
          /\ Log[k].at = 1
          /\ GetAttr(NodeAt(RootNode, Log[k].path), "var") = <<"t">>

-----------------------------------------------------------------------------
(* C17 *)

\* C17: a raw element never fails, and the text it returns has the lines of
\* its content (without the white space around the whole), each prefixed by
\* the current indent string and otherwise character for character as
\* written, lines of white space included; an empty line may stay empty.
C17_RawPassThrough ==
    Compiled =>
        \A k \in 1..Len(Log) :
            LET content == TrimSpace(NodeAt(RootNode, Log[k].path).Content)
                given == SplitLines(content)
                written == SplitLines(Log[k].text)
            IN  Log[k].tag = "raw" /\ Handlers["raw"] = Builtin("raw") =>
                   /\ Log[k].err.nil
                   /\ content = <<>> => Log[k].text = <<>>
                   /\ content # <<>> =>
                         /\ Len(written) = Len(given)
                         /\ \A i \in 1..Len(given) :
                               \/ written[i] = getIndent(Log[k].at) \o given[i]
                               \/ given[i] = <<>> /\ written[i] = <<>>

-----------------------------------------------------------------------------
(* C18 *)

\* C18: with the built-in handlers, a compileNode call for an entry, item or
\* arg element, at the root, below a script root or below any block, returns
\* empty text and no error whatever the element holds, compiles none of its
\* children, and adds nothing to the text of the enclosing block.
C18_SubElements ==
    Compiled =>
        \A k \in 1..Len(Log) :
            LET t == Log[k].tag
            IN  t \in {"arg", "entry", "item"} /\ Handlers[t] = Builtin(t) =>
                   /\ Log[k].text = <<>>
                   /\ Log[k].err.nil
                   /\ NoChildCompiled(Log[k].path)
                   /\ Log[k].path = <<>> => last.res.text = <<>> /\ last.res.err.nil
                   /\ \A j \in 1..Len(Log) :
                         IsChildOf(Log[k].path, Log[j].path) /\ Log[j].err.nil =>
                            BodyText(Log, Log[j].path) =
                               BodyText(SelectSeq(Log, LAMBDA v : v.path # Log[k].path),
                                        Log[j].path)

\* an entry with a key, content and a child of an unknown tag, compiled as
\* the second child of an if: the call succeeds with the set alone in the body
C18_WitnessInBlock ==
    /\ Compiled
    /\ last.res.err.nil
    /\ RootNode.tag = "if"
    /\ Len(RootNode.Nodes) = 2
    /\ RootNode.Nodes[2] = Node("entry", <<Attr("key", <<"k">>)>>, <<"a">>, <<Bogus>>)
    /\ Len(Log) = 3
    /\ last.res.text = <<"if", " ", "c", " ", "then", "\n">> \o getIndent(1)
                       \o <<"local", " ", "x", " ", "=", " ", "1", "\n", "end">>

-----------------------------------------------------------------------------
(* C19 *)

\* C19: when a compile call returns, with text or with an error raised at
\* any depth, the indent field of its instance is 0, which is where the next
\* compile call on the instance starts.
C19_IndentBalance ==
    last.op = "compile" => last.res.indent = 0 /\ comp[last.inst].indent = 0

(* ------------------------------------------------------------------------ *)
(* C20: calls that share an instance race on its indent counter              *)
(* ------------------------------------------------------------------------ *)

\* what the call of goroutine g returns when no other call runs
Alone(g) == CompileFromString(run[g].doc, comp[run[g].inst].handlers, 0)

\* the text without the spaces that begin its lines
Unindented(s) ==
    LET lines == SplitLines(s)
    IN  Join([i \in 1..Len(lines) |->
                 SubSeq(lines[i], LeadingSpaces(lines[i]) + 1, Len(lines[i]))], <<"\n">>)

\* C20: two Compile calls through the same instance race on its indent
\* counter: in some interleaving one call's increment is seen by the other,
\* and a call returns a text indented otherwise than the text it returns when
\* it runs alone.  The race reaches nothing but the indentation: along every
\* interleaving a call that returns has the error it has alone and, up to the
\* spaces that begin the lines, the text it has alone.
C20_SharedInstanceRace ==
    \A g \in Goroutines :
        run[g].phase = "done" /\ run[g].inst = "default"
            => /\ run[g].res.err = Alone(g).err
               /\ Unindented(run[g].res.text) = Unindented(Alone(g).text)

\* both calls went through the default instance and returned without an
\* error, and a line of one of them is indented deeper than it is alone: the
\* other call's increment was in the counter when the line was written
C20_WitnessOtherIndent ==
    /\ \A g \in Goroutines :
           run[g].phase = "done" /\ run[g].inst = "default" /\ run[g].res.err.nil
    /\ \E g \in Goroutines :
           /\ run[g].mixed
           /\ Unindented(run[g].res.text) = Unindented(Alone(g).text)
           /\ \E k \in 1..Len(SplitLines(Alone(g).text)) :
                  LeadingSpaces(SplitLines(run[g].res.text)[k])
                      > LeadingSpaces(SplitLines(Alone(g).text)[k])

(* ------------------------------------------------------------------------ *)
(* C21: children a container does not read are skipped                       *)
(* ------------------------------------------------------------------------ *)

\* the child is one the handler of the container n reads and writes
IsRead(n, c) ==
    CASE n.tag = "call" -> c.tag = "arg"
      [] n.tag = "array" -> c.tag = "item"
      [] n.tag = "table" ->
             c.tag = "entry" /\ GetAttr(c, "key") # <<>> /\ TrimSpace(c.Content) # <<>>
      [] OTHER -> FALSE

\* the container with no other children than those
OnlyRead(n) == [n EXCEPT !.Nodes = SelectSeq(n.Nodes, LAMBDA c : IsRead(n, c))]

\* the error a container returns for its own attributes
ContainerError(n) ==
    IF n.tag = "call"
    THEN IF GetAttr(n, "name") = <<>>
         THEN Errorf("call command requires 'name' attribute") ELSE NoErr
    ELSE IF GetAttr(n, "var") # <<>> /\ ~IsValidIdentifier(GetAttr(n, "var"))
         THEN ErrorfS("invalid variable name: ", GetAttr(n, "var")) ELSE NoErr

ContainerResult(n, indent) ==
    CASE n.tag = "call" -> HandlerCall(n, indent)
      [] n.tag = "table" -> HandlerTable(n, indent)
      [] OTHER -> HandlerArray(n, indent)

\* C21: the built-in call, table and array handlers compile none of their
\* children.  A child that is not an arg, an entry or an item respectively,
\* be it of an unknown tag or an invalid element, and a table entry with an
\* empty key or an empty value, raises no error and writes nothing: the
\* container returns no other error than the one for its own attributes, and
\* the text it returns without those children; a table writes one line for
\* each entry with a key and a value, between its two own lines.
C21_SkippedChildren ==
    Compiled =>
        \A k \in 1..Len(Log) :
            LET n == NodeAt(RootNode, Log[k].path)
                t == Log[k].tag
            IN  t \in {"call", "table", "array"} /\ Handlers[t] = Builtin(t) =>
                   /\ NoChildCompiled(Log[k].path)
                   /\ Log[k].err = ContainerError(n)
                   /\ Log[k].text = ContainerResult(OnlyRead(n), Log[k].at).text
                   /\ t = "table" /\ Log[k].err.nil =>
                         Len(SplitLines(Log[k].text)) = Len(OnlyRead(n).Nodes) + 2

\* a table in a block with an entry that is written, a child of an unknown
\* tag, an invalid set, an entry without a key and one without a value: the
\* call succeeds and the table has its two own lines and two entries
C21_WitnessTableSkips ==
    /\ Compiled
    /\ last.res.err.nil
    /\ \E k \in 1..Len(Log) :
          LET n == NodeAt(RootNode, Log[k].path)
          IN  /\ Log[k].tag = "table"
              /\ Log[k].at >= 1
              /\ Len(SplitLines(Log[k].text)) = 4
              /\ \E i \in 1..Len(n.Nodes) : n.Nodes[i].tag = "bogus"
              /\ \E i \in 1..Len(n.Nodes) : n.Nodes[i] = SetNoVar
              /\ \E i \in 1..Len(n.Nodes) : n.Nodes[i] = EntryNoKey
              /\ \E i \in 1..Len(n.Nodes) : n.Nodes[i] = EntryNoValue

(* ------------------------------------------------------------------------ *)
(* C22: the loop form of a for element                                       *)
(* ------------------------------------------------------------------------ *)

\* the first line of a text
FirstLine(text) == SplitLines(text)[1]

\* the step attribute is written as a third component
StepGiven(n) ==
    HasAttr(n, "step") /\ GetAttr(n, "step") # <<>> /\ GetAttr(n, "step") # <<"1">>

NumericLine(n) ==
    <<"for", " ">> \o GetAttr(n, "var") \o <<" ", "=", " ">> \o GetAttr(n, "from")
    \o <<",", " ">> \o GetAttr(n, "to")
    \o (IF StepGiven(n) THEN <<",", " ">> \o GetAttr(n, "step") ELSE <<>>) \o <<" ", "do">>

IteratorLine(n) ==
    <<"for", " ">> \o GetAttr(n, "var") \o <<" ", "in", " ">> \o GetAttr(n, "in")
    \o <<" ", "do">>

\* the element's var attribute passes the checks the handler makes first
VarAccepted(n) == GetAttr(n, "var") # <<>> /\ IsValidIdentifier(GetAttr(n, "var"))

\* The loop form of every for element compiled by the built-in handler, or
\* (checked) of those whose var attribute was accepted: the numeric header
\* when from and to are both non-empty, the iterator header when they are not
\* and in is non-empty, the range error with no child compiled otherwise.  A
\* for element that returns an error after its header was chosen returns the
\* error of a child.
FormSelection(checked) ==
    Compiled =>
        \A k \in 1..Len(Log) :
            LET n == NodeAt(RootNode, Log[k].path)
                numeric == GetAttr(n, "from") # <<>> /\ GetAttr(n, "to") # <<>>
                line == IF numeric THEN NumericLine(n) ELSE IteratorLine(n)
            IN  /\ Log[k].tag = "for"
                /\ Handlers["for"] = Builtin("for")
                /\ checked => VarAccepted(n)
                => IF numeric \/ GetAttr(n, "in") # <<>>
                   THEN /\ Log[k].err.nil => FirstLine(Log[k].text) = getIndent(Log[k].at) \o line
                        /\ ~Log[k].err.nil =>
                              \E j \in 1..Len(Log) :
                                  /\ IsChildOf(Log[j].path, Log[k].path)
                                  /\ Log[j].err = Log[k].err
                   ELSE /\ Log[k].err =
                              Errorf("for command requires either 'from'/'to' or 'in' attributes")
                        /\ Log[k].text = <<>>
                        /\ NoChildCompiled(Log[k].path)

\* C22 as stated, for every for element
C22_Original == FormSelection(FALSE)

\* C22: for a for element whose var attribute is non-empty and accepted as an
\* identifier, the numeric header is chosen exactly when from and to are both
\* non-empty (an in attribute is then not read), with the step as a third
\* component exactly when the step attribute is present, non-empty and not
\* "1"; when from or to is missing or empty the iterator header is chosen if
\* in is non-empty, and otherwise the call fails with the 'from'/'to' or 'in'
\* error before any child is compiled.
C22_LoopForm == FormSelection(TRUE)

\* a for element in a block with from, to, an in attribute and an empty step:
\* the numeric header is written with two components
C22_WitnessNumericOverIn ==
    /\ Compiled
    /\ \E k \in 1..Len(Log) :
          LET n == NodeAt(RootNode, Log[k].path)
          IN  /\ Log[k].tag = "for"
              /\ Log[k].at >= 1
              /\ Log[k].err.nil
              /\ GetAttr(n, "in") # <<>>
              /\ HasAttr(n, "step") /\ GetAttr(n, "step") = <<>>
              /\ FirstLine(Log[k].text) = getIndent(Log[k].at)
                     \o <<"for", " ", "i", " ", "=", " ", "1", ",", " ", "9", " ", "do">>

====
